---- MODULE Spec2Model ----
(***************************************************************************)
(* A model of the stinger-v3 data pipeline (src/data_pipeline):           *)
(*   fetch_rotten_tomatoes_data.py  RottenTomatoesDataFetcher             *)
(*   fetch_trailer_link.py          TrailerLinkFetcher                    *)
(*   fetch_tmdb_data.py             TMDBDataFetcher                       *)
(*                                                                         *)
(* The specifications share the variables of the module:                  *)
(*   SpecRate     the threads of one fetcher inside _rate_limit, with a   *)
(*                clock (one tick is half of min_request_interval);       *)
(*   SpecGen      the candidate URL list search_movie builds for a title; *)
(*   SpecExtract  the extraction strategies of search_movie on a page;    *)
(*   SpecRank     the scoring loop of search_trailer on a video title;    *)
(*   SpecAgent    the threads of one fetcher rotating its user agents;    *)
(*   Spec         the worker pool resolving the records of a catalog;     *)
(*   SpecTmdb     fetch_all_data: the provider threads paging through the *)
(*                listings, then the enrichment of the records found.     *)
(***************************************************************************)
EXTENDS Integers, Sequences, FiniteSets, TLC

VARIABLES
    \* ---- SpecRate: _rate_limit under a clock
    now,                \* time.time(), in ticks
    last_request_time,  \* self.last_request_time
    rl_pc,              \* per thread: position inside _rate_limit
    current_time,       \* per thread: the local current_time
    rl_wake,            \* per thread: when its time.sleep returns
    permits,            \* the times at which _rate_limit returned
    \* ---- SpecGen: the candidate list of one search_movie call
    g_title,            \* the title argument
    g_year,             \* the year argument
    g_pc,               \* "start", "generated" or "rejected"
    g_possible,         \* possible_urls
    g_unique,           \* unique_urls
    \* ---- SpecExtract: the score extraction of search_movie on one page
    x_doc,              \* the page (soup)
    x_pc,               \* "start", "extracted" or "raised"
    x_after,            \* (tomatometer, audience) after each of the strategies
    \* ---- SpecRank: the scoring loop of search_trailer on two video titles
    k_movie,            \* movie_title
    k_place,            \* i, the place of the video in the results
    k_duration,         \* the stored duration text of the video
    k_rest,             \* a video title without the movie title and the phrase
    k_pc,               \* "start" or "scored"
    k_scores,           \* the scores of the title with them, and of k_rest
    \* ---- Spec: update_movie_ratings / update_movie_trailers over a catalog
    pipeline,           \* "rt" (RottenTomatoesDataFetcher) or "trailer" (TrailerLinkFetcher)
    max_workers,        \* self.max_workers
    movies,             \* the catalog: record id -> record
    batches,            \* the batches, each a sequence of record ids
    future,             \* per batch: "none", "queued", "running", "done", "collected"
    batch_results,      \* per batch: what process_movie_batch returned
    all_results,        \* all_results of update_movie_*
    main_pc,            \* the calling thread: "start", "collect", "done", "raised"
    success_count,      \* self.success_count
    movies_lock,        \* self.movies_lock: the thread holding it, or 0
    current_ua_index,   \* self.current_ua_index
    video_durations,    \* self.video_durations: the urls with a stored duration
    w_pc,               \* per pool thread: where it is
    w_batch,            \* per pool thread: the batch it runs, or 0
    w_pos,              \* per pool thread: the place in the batch
    w_results,          \* per pool thread: results of process_movie_batch
    w_urls,             \* per pool thread: unique_urls of search_movie
    w_ci,               \* per pool thread: the index of the candidate in turn
    w_n,                \* per pool thread: requests sent for this session.get
    w_result,           \* per pool thread: what search_movie / search_trailer returned
    w_count,            \* per pool thread: the success_count that its += 1 has read
    w_scored,           \* per pool thread: scored_videos of search_trailer (the scores)
    w_all429,           \* history: every earlier answer to this session.get was 429
    w_all404,           \* history: every answer for this record was 404
    w_slept,            \* history: a sleep of positive length during this search
    w_tried,            \* history: the candidates (indexes) requested in this search
    w_good,             \* history: the candidates answered with 200 and a score
    w_error,            \* history: the last candidate whose request ended in a network error, or 0
    w_last,             \* history: the answer on which this search ended
    fetch_failed,       \* history: no request of the run was answered with 200
    movies_before,      \* history: the catalog as update_movie_* got it
    \* ---- SpecAgent: the threads of one fetcher rotating its user agents
    ua_fetcher,         \* "rt" (_get_headers) or "trailer" (_get_next_user_agent)
    ua_index,           \* self.current_ua_index
    ua_pc,              \* per thread: where it is in the call
    ua_read,            \* per thread: the index it has read for the increment
    ua_entry,           \* per thread: the entry of self.user_agents it takes
    ua_calls,           \* history: the entries taken by the calls, as they returned
    \* ---- SpecTmdb: TMDBDataFetcher.fetch_all_data
    tm_pc,              \* the calling thread: "start", "providers", "enrich", "done"
    tm_movies,          \* self.movies: movie id -> record
    tm_lock,            \* self.movies_lock: the thread holding it, or <<>>
    movie_ids,          \* movie_ids of fetch_all_data
    tm_out,             \* what fetch_all_data returned
    p_pc,               \* per provider thread: where it is in get_movies_by_provider
    page,               \* per provider thread: page
    p_n,                \* per provider thread: requests answered so far in the session.get under way
    p_results,          \* per provider thread: the results not yet iterated
    p_absent,           \* per provider thread: what "movie_id not in self.movies" gave
    e_pc,               \* per movie id: where its enrich_movie_details call is
    e_n,                \* per movie id: requests answered so far in its session.get under way
    e_data,             \* per movie id: data of the response
    p_asked,            \* history: the pages a provider thread asked for, in order
    p_listed,           \* history: the ids of the pages a provider thread received
    p_last,             \* history: how the last session.get of a provider thread ended
    tm_created,         \* history: how often a record was created
    e_calls,            \* history: the enrich_movie_details calls per id
    e_before            \* history: per movie id: its record when its call began

rateVars == <<now, last_request_time, rl_pc, current_time, rl_wake, permits>>
genVars == <<g_title, g_year, g_pc, g_possible, g_unique>>
extractVars == <<x_doc, x_pc, x_after>>
rankVars == <<k_movie, k_place, k_duration, k_rest, k_pc, k_scores>>
pureVars == <<genVars, extractVars, rankVars>>

catalogVars == <<pipeline, max_workers, movies>>
mainVars == <<batches, future, batch_results, all_results, main_pc>>
sharedVars == <<success_count, movies_lock, current_ua_index, video_durations>>
workerVars == <<w_pc, w_batch, w_pos, w_results, w_urls, w_ci, w_n, w_result>>
historyVars == <<w_all429, w_all404, w_slept, w_tried, w_good, w_error, w_last>>
runVars == <<fetch_failed, movies_before>>
poolVars == <<catalogVars, mainVars, sharedVars, workerVars, w_count, w_scored, historyVars, runVars>>

agentVars == <<ua_fetcher, ua_index, ua_pc, ua_read, ua_entry, ua_calls>>

tmdbMainVars == <<tm_pc, movie_ids, tm_out>>
providerVars == <<p_pc, page, p_n, p_results, p_absent>>
enrichVars == <<e_pc, e_n, e_data>>
tmdbHistoryVars == <<p_asked, p_listed, p_last, tm_created, e_calls, e_before>>
tmdbVars == <<tmdbMainVars, tm_movies, tm_lock, providerVars, enrichVars, tmdbHistoryVars>>

vars == <<rateVars, pureVars, poolVars, agentVars, tmdbVars>>

(***************************************************************************)
(* Bounds of the model.                                                    *)
(***************************************************************************)
NThreads == 2       \* threads sharing one fetcher instance
MaxTime == 7        \* the clock stops here
MaxPermits == 3     \* _rate_limit calls observed
MaxCalls == 3       \* calls of the user-agent rotation begun while fewer have returned

Threads == 1..NThreads

(***************************************************************************)
(* _rate_limit, the same body in the three fetchers.  The clock counts in *)
(* ticks of 0.025 s, so min_request_interval = 0.05 s is 2 ticks.         *)
(***************************************************************************)
min_request_interval == 2

\* entry of _rate_limit: current_time = time.time()
RLNow(t) ==
    /\ rl_pc[t] = "idle"
    /\ Len(permits) < MaxPermits
    /\ current_time' = [current_time EXCEPT ![t] = now]
    /\ rl_pc' = [rl_pc EXCEPT ![t] = "elapsed"]
    /\ UNCHANGED <<now, last_request_time, rl_wake, permits>>
    /\ UNCHANGED <<pureVars, poolVars, agentVars, tmdbVars>>

\* elapsed = current_time - self.last_request_time; sleep for the remainder
RLElapsed(t) ==
    /\ rl_pc[t] = "elapsed"
    /\ LET elapsed == current_time[t] - last_request_time
       IN  IF elapsed < min_request_interval
           THEN /\ rl_wake' = [rl_wake EXCEPT
                                 ![t] = now + (min_request_interval - elapsed)]
                /\ rl_pc' = [rl_pc EXCEPT ![t] = "sleep"]
           ELSE /\ rl_pc' = [rl_pc EXCEPT ![t] = "stamp"]
                /\ UNCHANGED rl_wake
    /\ UNCHANGED <<now, last_request_time, current_time, permits>>
    /\ UNCHANGED <<pureVars, poolVars, agentVars, tmdbVars>>

\* time.sleep returns once the remainder has passed
RLWake(t) ==
    /\ rl_pc[t] = "sleep"
    /\ now >= rl_wake[t]
    /\ rl_pc' = [rl_pc EXCEPT ![t] = "stamp"]
    /\ UNCHANGED <<now, last_request_time, current_time, rl_wake, permits>>
    /\ UNCHANGED <<pureVars, poolVars, agentVars, tmdbVars>>

\* self.last_request_time = time.time(); _rate_limit returns: a permitted call
RLStamp(t) ==
    /\ rl_pc[t] = "stamp"
    /\ last_request_time' = now
    /\ permits' = Append(permits, now)
    /\ rl_pc' = [rl_pc EXCEPT ![t] = "idle"]
    /\ UNCHANGED <<now, current_time, rl_wake>>
    /\ UNCHANGED <<pureVars, poolVars, agentVars, tmdbVars>>

Tick ==
    /\ now < MaxTime
    /\ now' = now + 1
    /\ UNCHANGED <<last_request_time, rl_pc, current_time, rl_wake, permits>>
    /\ UNCHANGED <<pureVars, poolVars, agentVars, tmdbVars>>

\* the variables of the other specifications, at rest
RateIdle ==
    /\ now = 0
    /\ last_request_time = 0
    /\ rl_pc = [t \in Threads |-> "idle"]
    /\ current_time = [t \in Threads |-> 0]
    /\ rl_wake = [t \in Threads |-> 0]
    /\ permits = <<>>

GenIdle ==
    /\ g_title = <<>>
    /\ g_year = 0
    /\ g_pc = "idle"
    /\ g_possible = <<>>
    /\ g_unique = <<>>

ExtractIdle ==
    /\ x_doc = <<>>
    /\ x_pc = "idle"
    /\ x_after = <<>>

RankIdle ==
    /\ k_movie = <<>>
    /\ k_place = 0
    /\ k_duration = <<>>
    /\ k_rest = <<>>
    /\ k_pc = "idle"
    /\ k_scores = <<>>

PureIdle == GenIdle /\ ExtractIdle /\ RankIdle

AgentIdle ==
    /\ ua_fetcher = "none"
    /\ ua_index = 0
    /\ ua_pc = [t \in Threads |-> "idle"]
    /\ ua_read = [t \in Threads |-> 0]
    /\ ua_entry = [t \in Threads |-> 0]
    /\ ua_calls = <<>>

\* lines 36-45: self.providers, the services fetch_all_data asks for (two of
\* the eight are enough for every interleaving of two threads)
Providers == {"Netflix", "Hulu"}

\* the movie ids the listings can hold
MovieIds == {1, 2}

\* no thread holds the lock
Nobody == <<>>

\* no response data
NoData == [runtime |-> 0, genres |-> <<>>, malformed |-> FALSE]

TmdbIdle ==
    /\ tm_pc = "idle"
    /\ tm_movies = <<>>
    /\ tm_lock = Nobody
    /\ movie_ids = {}
    /\ tm_out = <<>>
    /\ p_pc = [p \in Providers |-> "idle"]
    /\ page = [p \in Providers |-> 0]
    /\ p_n = [p \in Providers |-> 0]
    /\ p_results = [p \in Providers |-> <<>>]
    /\ p_absent = [p \in Providers |-> FALSE]
    /\ e_pc = [i \in MovieIds |-> "idle"]
    /\ e_n = [i \in MovieIds |-> 0]
    /\ e_data = [i \in MovieIds |-> NoData]
    /\ p_asked = [p \in Providers |-> <<>>]
    /\ p_listed = [p \in Providers |-> {}]
    /\ p_last = [p \in Providers |-> "none"]
    /\ tm_created = [i \in MovieIds |-> 0]
    /\ e_calls = [i \in MovieIds |-> 0]
    /\ e_before = [i \in MovieIds |-> <<>>]

NoResult == [tomatometer |-> 0, audience |-> 0, trailer |-> <<>>]

\* a document in which the parser finds nothing
NoMarkup ==
    [rt_critics |-> -1, rt_audience |-> -1, score_board |-> FALSE,
     sb_critics |-> -1, sb_popcorn |-> -1, percents |-> <<>>,
     qa_tomato |-> -1, qa_audience |-> -1, malformed |-> FALSE,
     script |-> FALSE, video_ids |-> <<>>, titles |-> <<>>, durations |-> <<>>,
     anchors |-> <<>>]

\* no answer yet
NoAnswer == [kind |-> "none", status |-> 0, doc |-> NoMarkup]

PoolSizes == {1, 2}
\* the threads an executor could start: more than the widest pool has, so
\* that max_workers is a bound for every pool
SpareThreads == 1
PoolThreads == 1..((CHOOSE n \in PoolSizes : \A m \in PoolSizes : m <= n) + SpareThreads)

PoolIdle ==
    /\ pipeline = "none"
    /\ max_workers = 0
    /\ movies = <<>>
    /\ batches = <<>>
    /\ future = <<>>
    /\ batch_results = <<>>
    /\ all_results = <<>>
    /\ main_pc = "idle"
    /\ success_count = 0
    /\ movies_lock = 0
    /\ current_ua_index = 0
    /\ video_durations = {}
    /\ w_pc = [w \in PoolThreads |-> "idle"]
    /\ w_batch = [w \in PoolThreads |-> 0]
    /\ w_pos = [w \in PoolThreads |-> 0]
    /\ w_results = [w \in PoolThreads |-> <<>>]
    /\ w_urls = [w \in PoolThreads |-> <<>>]
    /\ w_ci = [w \in PoolThreads |-> 0]
    /\ w_n = [w \in PoolThreads |-> 0]
    /\ w_result = [w \in PoolThreads |-> NoResult]
    /\ w_count = [w \in PoolThreads |-> 0]
    /\ w_scored = [w \in PoolThreads |-> <<>>]
    /\ w_all429 = [w \in PoolThreads |-> FALSE]
    /\ w_all404 = [w \in PoolThreads |-> FALSE]
    /\ w_slept = [w \in PoolThreads |-> FALSE]
    /\ w_tried = [w \in PoolThreads |-> {}]
    /\ w_good = [w \in PoolThreads |-> {}]
    /\ w_error = [w \in PoolThreads |-> 0]
    /\ w_last = [w \in PoolThreads |-> NoAnswer]
    /\ fetch_failed = TRUE
    /\ movies_before = movies

RateInit ==
    /\ PureIdle
    /\ PoolIdle
    /\ AgentIdle
    /\ TmdbIdle
    /\ now = min_request_interval     \* time.time() is far past the epoch
    /\ last_request_time = 0
    /\ rl_pc = [t \in Threads |-> "idle"]
    /\ current_time = [t \in Threads |-> 0]
    /\ rl_wake = [t \in Threads |-> 0]
    /\ permits = <<>>

RateNext ==
    \/ \E t \in Threads : RLNow(t)
    \/ \E t \in Threads : RLElapsed(t)
    \/ \E t \in Threads : RLWake(t)
    \/ \E t \in Threads : RLStamp(t)
    \/ Tick

SpecRate == RateInit /\ [][RateNext]_vars

(***************************************************************************)
(* Text.  A Python str is a sequence of one-character strings.            *)
(***************************************************************************)
Uppers == <<"A","B","C","D","E","F","G","H","I","J","K","L","M",
            "N","O","P","Q","R","S","T","U","V","W","X","Y","Z">>
Lowers == <<"a","b","c","d","e","f","g","h","i","j","k","l","m",
            "n","o","p","q","r","s","t","u","v","w","x","y","z">>
DigitChars == <<"0","1","2","3","4","5","6","7","8","9">>

Range(f) == {f[i] : i \in DOMAIN f}

\* str.lower() on one character
LowerChar(c) ==
    IF c \in Range(Uppers)
    THEN Lowers[CHOOSE i \in DOMAIN Uppers : Uppers[i] = c]
    ELSE c

Lower(s) == [i \in 1..Len(s) |-> LowerChar(s[i])]

\* the regular-expression classes \w and \s
IsWordChar(c) == c \in Range(Uppers) \cup Range(Lowers) \cup Range(DigitChars) \cup {"_"}
IsSpace(c) == c = " "

\* re.sub(r'[^\w\s-]', '', s)
StripNonWord(s) == SelectSeq(s, LAMBDA c : IsWordChar(c) \/ IsSpace(c) \/ c = "-")

\* s.strip(chars), chars a set of characters
StripChars(s, chars) ==
    LET keep == {i \in 1..Len(s) : s[i] \notin chars}
    IN  IF keep = {} THEN <<>>
        ELSE SubSeq(s, CHOOSE i \in keep : \A j \in keep : i <= j,
                       CHOOSE i \in keep : \A j \in keep : i >= j)

Strip(s) == StripChars(s, {" "})

\* re.sub(r'[chars]+', rep, s): every maximal run of chars becomes rep
RECURSIVE SubRunsFrom(_, _, _, _)
SubRunsFrom(s, i, chars, rep) ==
    IF i > Len(s) THEN <<>>
    ELSE IF s[i] \in chars
         THEN (IF i > 1 /\ s[i-1] \in chars THEN <<>> ELSE rep)
              \o SubRunsFrom(s, i + 1, chars, rep)
         ELSE <<s[i]>> \o SubRunsFrom(s, i + 1, chars, rep)

SubRuns(s, chars, rep) == SubRunsFrom(s, 1, chars, rep)

\* pat occurs in s at index i
HasAt(s, i, pat) ==
    /\ i + Len(pat) - 1 <= Len(s)
    /\ SubSeq(s, i, i + Len(pat) - 1) = pat

\* pat in s
Contains(s, pat) == \E i \in 1..Len(s) : HasAt(s, i, pat)

\* s.replace(old, new): the non-overlapping occurrences, left to right
RECURSIVE ReplaceFrom(_, _, _, _)
ReplaceFrom(s, i, old, new) ==
    IF i > Len(s) THEN <<>>
    ELSE IF HasAt(s, i, old)
         THEN new \o ReplaceFrom(s, i + Len(old), old, new)
         ELSE <<s[i]>> \o ReplaceFrom(s, i + 1, old, new)

Replace(s, old, new) == ReplaceFrom(s, 1, old, new)

\* s.replace(c, '') for every character c of chars
RemoveChars(s, chars) == SelectSeq(s, LAMBDA c : c \notin chars)

\* s.split(sep)[0]
SplitFirst(s, sep) ==
    IF Contains(s, sep)
    THEN SubSeq(s, 1, (CHOOSE i \in 1..Len(s) :
                          /\ HasAt(s, i, sep)
                          /\ \A j \in 1..(i-1) : ~HasAt(s, j, sep)) - 1)
    ELSE s

\* s.split(): the maximal runs of non-whitespace
RECURSIVE SplitFrom(_, _, _)
SplitFrom(s, i, word) ==
    IF i > Len(s) THEN (IF word = <<>> THEN <<>> ELSE <<word>>)
    ELSE IF IsSpace(s[i])
         THEN (IF word = <<>> THEN <<>> ELSE <<word>>) \o SplitFrom(s, i + 1, <<>>)
         ELSE SplitFrom(s, i + 1, Append(word, s[i]))

Split(s) == SplitFrom(s, 1, <<>>)

\* ' '.join(words)
RECURSIVE Join(_)
Join(words) ==
    IF words = <<>> THEN <<>>
    ELSE IF Len(words) = 1 THEN words[1]
    ELSE words[1] \o <<" ">> \o Join(Tail(words))

\* words[:n]
Take(words, n) == SubSeq(words, 1, IF n < Len(words) THEN n ELSE Len(words))

\* str(year) of a non-negative int
RECURSIVE IntStr(_)
IntStr(n) ==
    IF n < 10 THEN <<DigitChars[n + 1]>>
    ELSE IntStr(n \div 10) \o <<DigitChars[(n % 10) + 1]>>

(***************************************************************************)
(* search_movie, lines 117-245: the candidate URLs of (title, year).      *)
(***************************************************************************)
HasDeniedChar_Never(title) == FALSE

\* line 118: titles with '#' or '@' are skipped
HasDeniedChar(title) == \E i \in 1..Len(title) : title[i] \in {"#", "@"}

\* line 122
clean_title(title) == Strip(StripNonWord(title))

\* line 123
url_title(title) == SubRuns(Lower(clean_title(title)), {" "}, <<"_">>)

\* a variant that recognises only "the_" as a leading article
StripLeadingArticle_TheOnly(u) ==
    IF HasAt(u, 1, <<"t","h","e","_">>) THEN SubSeq(u, 5, Len(u)) ELSE u

\* line 126: re.sub(r'^(the_|a_|an_)', '', url_title)
StripLeadingArticle(u) ==
    IF HasAt(u, 1, <<"t","h","e","_">>) THEN SubSeq(u, 5, Len(u))
    ELSE IF HasAt(u, 1, <<"a","_">>) THEN SubSeq(u, 3, Len(u))
    ELSE IF HasAt(u, 1, <<"a","n","_">>) THEN SubSeq(u, 4, Len(u))
    ELSE u

url_title_no_articles(title) == StripLeadingArticle(url_title(title))

\* line 129
url_title_compact(title) ==
    StripChars(
        SubRuns(Replace(Replace(Replace(url_title(title),
                                        <<"_","t","h","e","_">>, <<"_">>),
                                <<"_","a","_">>, <<"_">>),
                        <<"_","a","n","_">>, <<"_">>),
                {"_"}, <<"_">>),
        {"_"})

\* line 130
url_title_no_spaces(title) == RemoveChars(Lower(title), {" ", ":", "'", "-", "."})

\* lines 139-140, 146-147, 210-211, 220-221, 232-233: the slug of a lowered text
SlugOf(text) == SubRuns(StripNonWord(text), {" "}, <<"_">>)

\* re.sub(r'episode\s+<numeral>(?![<forbid>])', rep, s): where a match that
\* starts at i ends, or 0
EpisodeMatchEnd(s, i, numeral, forbid) ==
    IF ~HasAt(s, i, <<"e","p","i","s","o","d","e">>) THEN 0
    ELSE LET j == i + 7
             nonsp == {k \in j..Len(s) : ~IsSpace(s[k])}
             k == IF nonsp = {} THEN Len(s) + 1
                  ELSE CHOOSE x \in nonsp : \A y \in nonsp : x <= y
             e == k + Len(numeral) - 1
         IN  IF /\ k > j
                /\ HasAt(s, k, numeral)
                /\ (e = Len(s) \/ s[e + 1] \notin forbid)
             THEN e ELSE 0

RECURSIVE EpisodeSubFrom(_, _, _, _, _)
EpisodeSubFrom(s, i, numeral, forbid, rep) ==
    IF i > Len(s) THEN <<>>
    ELSE LET e == EpisodeMatchEnd(s, i, numeral, forbid)
         IN  IF e > 0
             THEN rep \o EpisodeSubFrom(s, e + 1, numeral, forbid, rep)
             ELSE <<s[i]>> \o EpisodeSubFrom(s, i + 1, numeral, forbid, rep)

EpisodeSub(s, numeral, forbid, digit) ==
    EpisodeSubFrom(s, 1, numeral, forbid, <<"e","p","i","s","o","d","e","_",digit>>)

EpisodeText(numeral) == <<"e","p","i","s","o","d","e"," ">> \o numeral

\* lines 151-166: alt_title
alt_title(title) ==
    LET t == Lower(title)
    IN  IF Contains(t, EpisodeText(<<"i","i","i">>))
          THEN EpisodeSub(t, <<"i","i","i">>, {}, "3")
        ELSE IF Contains(t, EpisodeText(<<"i","i">>))
          THEN EpisodeSub(t, <<"i","i">>, {}, "2")
        ELSE IF Contains(t, EpisodeText(<<"i">>)) /\ ~Contains(t, EpisodeText(<<"i","v">>))
          THEN EpisodeSub(t, <<"i">>, {"i", "v", "x"}, "1")
        ELSE IF Contains(t, EpisodeText(<<"i","v">>))
          THEN EpisodeSub(t, <<"i","v">>, {}, "4")
        ELSE IF Contains(t, EpisodeText(<<"v">>)) /\ ~Contains(t, EpisodeText(<<"v","i">>))
          THEN EpisodeSub(t, <<"v">>, {"i"}, "5")
        ELSE IF Contains(t, EpisodeText(<<"v","i">>))
          THEN EpisodeSub(t, <<"v","i">>, {}, "6")
        ELSE t

\* a dict key set in insertion order: d[key] = ... keeps the place of a key
\* that is already there
PutKey(keys, key) ==
    IF \E i \in 1..Len(keys) : keys[i] = key THEN keys ELSE Append(keys, key)

\* lines 133-171: the keys of special_cases, in insertion order; the value of
\* a key is always f"{key}_{year}"
special_cases(title) ==
    LET k1 == IF Contains(title, <<":">>)
              THEN PutKey(<<>>, SlugOf(Lower(Strip(SplitFirst(title, <<":">>)))))
              ELSE <<>>
        k2 == IF Contains(title, <<" ","-"," ">>)
              THEN PutKey(k1, SlugOf(Lower(Strip(SplitFirst(title, <<" ","-"," ">>)))))
              ELSE k1
        t  == Lower(title)
    IN  IF /\ \/ Contains(t, <<"e","p","i","s","o","d","e">>)
              \/ Contains(t, <<"p","a","r","t">>)
           /\ alt_title(title) # t
        THEN PutKey(k2, SlugOf(alt_title(title)))
        ELSE k2

WithYear(slug, year) == slug \o <<"_">> \o IntStr(year)

\* lines 177-181
RECURSIVE SpecialUrls(_, _)
SpecialUrls(keys, year) ==
    IF keys = <<>> THEN <<>>
    ELSE <<keys[1], WithYear(keys[1], year)>> \o SpecialUrls(Tail(keys), year)

\* a variant that tries the patterns with the article before those without
StandardUrls_ArticleFirst(title, year) ==
    LET u  == SubRuns(Lower(Strip(StripNonWord(title))), {" "}, <<"_">>)
        na == StripLeadingArticle(u)
    IN  << u, WithYear(u, year), na, WithYear(na, year) >>

\* lines 184-204: the standard patterns; "without leading articles first"
StandardUrls(title, year) ==
    LET u  == url_title(title)
        na == url_title_no_articles(title)
        c  == url_title_compact(title)
    IN  << na,
           WithYear(na, year),
           u,
           WithYear(u, year),
           c,
           WithYear(c, year),
           url_title_no_spaces(title),
           RemoveChars(u, {"_"}),
           RemoveChars(na, {"_"}),
           Replace(u, <<"_">>, <<"-">>),
           Replace(na, <<"_">>, <<"-">>),
           RemoveChars(Replace(Lower(title), <<" ">>, <<"_">>), {":", "'"}),
           RemoveChars(Lower(title), {" ", ":", "'"}) >>

\* lines 207-225: the first two (three) words of a long title
ShortUrls(title, year) ==
    LET words == Split(title)
        short_url == SlugOf(Lower(Join(Take(words, 2))))
        med_url == SlugOf(Lower(Join(Take(words, 3))))
    IN  IF Len(words) > 2
        THEN <<WithYear(short_url, year), short_url>>
             \o (IF Len(words) > 4
                 THEN <<WithYear(med_url, year), med_url>>
                 ELSE <<>>)
        ELSE <<>>

\* line 228
stop_words ==
    { <<"t","h","e">>, <<"a">>, <<"a","n">>, <<"o","f">>, <<"a","n","d">>,
      <<"o","r">>, <<"b","u","t">>, <<"i","n">>, <<"o","n">>, <<"a","t">>,
      <<"t","o">>, <<"f","o","r">>, <<"w","i","t","h">> }

\* lines 229-237
FilteredUrls(title, year) ==
    LET words == Split(title)
        filtered_words == SelectSeq(words, LAMBDA w : Lower(w) \notin stop_words)
        filtered_url == SlugOf(Lower(Join(filtered_words)))
    IN  IF Len(filtered_words) < Len(words)
        THEN <<WithYear(filtered_url, year), filtered_url>>
        ELSE <<>>

\* f"https://www.rottentomatoes.com/m/{slug}"
RtUrl(slug) == <<"https://www.rottentomatoes.com/m/">> \o slug

\* lines 174-237
possible_urls(title, year) ==
    LET slugs == SpecialUrls(special_cases(title), year)
                 \o StandardUrls(title, year)
                 \o ShortUrls(title, year)
                 \o FilteredUrls(title, year)
    IN  [i \in 1..Len(slugs) |-> RtUrl(slugs[i])]

\* a variant that keeps the last occurrence of a url
RECURSIVE Dedupe_KeepLast(_, _)
Dedupe_KeepLast(urls, seen) ==
    IF urls = <<>> THEN <<>>
    ELSE IF \E i \in 2..Len(urls) : urls[i] = urls[1]
         THEN Dedupe_KeepLast(Tail(urls), seen)
    ELSE <<urls[1]>> \o Dedupe_KeepLast(Tail(urls), seen)

\* lines 239-245: remove duplicates while preserving order
RECURSIVE Dedupe(_, _)
Dedupe(urls, seen) ==
    IF urls = <<>> THEN <<>>
    ELSE IF urls[1] \in seen THEN Dedupe(Tail(urls), seen)
    ELSE <<urls[1]>> \o Dedupe(Tail(urls), seen \cup {urls[1]})

unique_urls(title, year) == Dedupe(possible_urls(title, year), {})

(***************************************************************************)
(* search_movie, lines 256-329: the scores of a fetched document.         *)
(* A document is what the parser finds in it: a number is the digits of   *)
(* the element or attribute, and -1 says that it is absent or holds none. *)
(*   rt_critics, rt_audience   <rt-text slot="criticsScore|audienceScore">*)
(*   score_board               a <score-board> element is present         *)
(*   sb_critics, sb_popcorn    its criticsscore / popcornmeter attributes *)
(*   percents                  the texts matching \d+%, in document order:*)
(*                             the keywords of the parent, and the number *)
(*   qa_tomato, qa_audience    the data-qa / class hinted elements        *)
(*   malformed                 parsing it raises an exception             *)
(***************************************************************************)
Found(n) == IF n > 0 THEN n ELSE 0

Strategy1_CriticsForBoth(doc) ==
    [tomatometer |-> Found(doc.rt_critics), audience |-> Found(doc.rt_critics)]

\* lines 263-276: strategy 1
Strategy1(doc) ==
    [tomatometer |-> Found(doc.rt_critics), audience |-> Found(doc.rt_audience)]

Strategy2_Overwrites(doc, sc) ==
    IF (sc.tomatometer = 0 \/ sc.audience = 0) /\ doc.score_board
    THEN [tomatometer |-> IF doc.sb_critics > 0 THEN doc.sb_critics ELSE sc.tomatometer,
          audience |-> IF doc.sb_popcorn > 0 THEN doc.sb_popcorn ELSE sc.audience]
    ELSE sc

\* lines 278-289: strategy 2, the score-board element
Strategy2(doc, sc) ==
    IF (sc.tomatometer = 0 \/ sc.audience = 0) /\ doc.score_board
    THEN [tomatometer |-> IF sc.tomatometer = 0 THEN Found(doc.sb_critics)
                          ELSE sc.tomatometer,
          audience |-> IF sc.audience = 0 THEN Found(doc.sb_popcorn)
                       ELSE sc.audience]
    ELSE sc

\* lines 295-303: one text matching \d+%
PercentStep(sc, elem) ==
    IF elem.critics
    THEN IF sc.tomatometer = 0 THEN [sc EXCEPT !.tomatometer = elem.value] ELSE sc
    ELSE IF elem.audience
    THEN IF sc.audience = 0 THEN [sc EXCEPT !.audience = elem.value] ELSE sc
    ELSE sc

RECURSIVE PercentScan(_, _)
PercentScan(elems, sc) ==
    IF elems = <<>> THEN sc
    ELSE PercentScan(Tail(elems), PercentStep(sc, elems[1]))

\* lines 291-303: strategy 3, percentages in the text
Strategy3(doc, sc) ==
    IF sc.tomatometer = 0 \/ sc.audience = 0
    THEN PercentScan(doc.percents, sc)
    ELSE sc

Strategy4_WhenNothingFound(doc, sc) ==
    IF sc.tomatometer = 0 /\ sc.audience = 0
    THEN [tomatometer |-> Found(doc.qa_tomato), audience |-> Found(doc.qa_audience)]
    ELSE sc

\* lines 305-320: strategy 4, data-qa attributes and class hints
Strategy4(doc, sc) ==
    [tomatometer |-> IF sc.tomatometer = 0 THEN Found(doc.qa_tomato)
                     ELSE sc.tomatometer,
     audience |-> IF sc.audience = 0 THEN Found(doc.qa_audience)
                  ELSE sc.audience]

Extract(doc) == Strategy4(doc, Strategy3(doc, Strategy2(doc, Strategy1(doc))))

\* the pages the review site answers with
RtDocs ==
    { [NoMarkup EXCEPT !.rt_critics = 90, !.rt_audience = 80],
      [NoMarkup EXCEPT !.rt_critics = 90],
      [NoMarkup EXCEPT !.score_board = TRUE, !.sb_popcorn = 70],
      NoMarkup,
      [NoMarkup EXCEPT !.malformed = TRUE] }

(***************************************************************************)
(* search_trailer, lines 108-214: the videos of a result page and their   *)
(* scores.  A page holds the ytInitialData script (script, with the three *)
(* lists the regular expressions find in it) and the /watch?v= anchors.   *)
(***************************************************************************)
YtUrl(id) == <<"https://www.youtube.com/watch?v=", id>>

At(seq, i) == IF i <= Len(seq) THEN seq[i] ELSE <<>>

\* lines 114-133: method 1; lines 135-145: method 2
VideoLinks(doc) ==
    IF doc.script /\ doc.video_ids # <<>>
    THEN [i \in 1..Len(Take(doc.video_ids, 10)) |->
             [url |-> YtUrl(doc.video_ids[i]),
              title |-> Lower(At(doc.titles, i))]]
    ELSE [i \in 1..Len(Take(doc.anchors, 10)) |->
             [url |-> YtUrl(doc.anchors[i].href),
              title |-> Lower(doc.anchors[i].label)]]

\* lines 129-132: self.video_durations[video_url] = duration
StoreDurations(durations, doc) ==
    IF doc.script
    THEN [u \in DOMAIN durations |->
             IF \E i \in 1..Len(Take(doc.video_ids, 10)) : YtUrl(doc.video_ids[i]) = u
             THEN At(doc.durations,
                     CHOOSE i \in 1..Len(Take(doc.video_ids, 10)) :
                        /\ YtUrl(doc.video_ids[i]) = u
                        /\ \A j \in (i+1)..Len(Take(doc.video_ids, 10)) :
                              YtUrl(doc.video_ids[j]) # u)
             ELSE durations[u]]
    ELSE durations

IsDigit(c) == c \in Range(DigitChars)

RECURSIVE StrInt(_)
StrInt(ds) ==
    IF ds = <<>> THEN 0
    ELSE 10 * StrInt(SubSeq(ds, 1, Len(ds) - 1))
         + ((CHOOSE i \in DOMAIN DigitChars : DigitChars[i] = ds[Len(ds)]) - 1)

\* re.search(r'(\d+)\s*second', text): the places i..j of the digits of the
\* leftmost match
SecondMatches(text) ==
    {ij \in (1..Len(text)) \X (1..Len(text)) :
        /\ ij[1] <= ij[2]
        /\ \A k \in ij[1]..ij[2] : IsDigit(text[k])
        /\ (ij[1] = 1 \/ ~IsDigit(text[ij[1] - 1]))
        /\ \E m \in (ij[2] + 1)..Len(text) :
              /\ \A k \in (ij[2] + 1)..(m - 1) : IsSpace(text[k])
              /\ HasAt(text, m, <<"s","e","c","o","n","d">>)}

\* lines 68-88: _is_short_video
_is_short_video(duration_text) ==
    LET duration_lower == Lower(duration_text)
        ms == SecondMatches(duration_lower)
    IN  IF Contains(duration_lower, <<"m","i","n","u","t","e">>) THEN FALSE
        ELSE IF ms # {}
        THEN LET m == CHOOSE x \in ms : \A y \in ms : x[1] <= y[1]
             IN  StrInt(SubSeq(duration_lower, m[1], m[2])) < 30
        ELSE FALSE

\* lines 150-158
trailer_keywords ==
    <<<<"t","r","a","i","l","e","r">>, <<"o","f","f","i","c","i","a","l">>, <<"t","e","a","s","e","r">>, <<"p","r","e","v","i","e","w">>>>
bad_keywords ==
    << <<"a","d">>,
       <<"a","d","v","e","r","t","i","s","e","m","e","n","t">>,
       <<"c","o","m","m","e","r","c","i","a","l">>,
       <<"r","e","v","i","e","w">>,
       <<"r","e","a","c","t","i","o","n">>,
       <<"b","r","e","a","k","d","o","w","n">>,
       <<"e","x","p","l","a","i","n","e","d">>,
       <<"i","n","t","e","r","v","i","e","w">>,
       <<"b","e","h","i","n","d"," ","t","h","e"," ","s","c","e","n","e","s">>,
       <<"m","a","k","i","n","g"," ","o","f">>,
       <<"b","l","o","o","p","e","r","s">>,
       <<"d","e","l","e","t","e","d"," ","s","c","e","n","e">>,
       <<"c","l","i","p">>,
       <<"s","c","e","n","e">>,
       <<"t","v"," ","s","p","o","t">>,
       <<"p","r","o","m","o">>,
       <<"f","e","a","t","u","r","e","t","t","e">>,
       <<"c","o","m","p","a","r","i","s","o","n">>,
       <<"v","s">>,
       <<"e","a","s","t","e","r"," ","e","g","g">>,
       <<"t","h","e","o","r","y">>,
       <<"a","n","a","l","y","s","i","s">>,
       <<"e","n","d","i","n","g"," ","e","x","p","l","a","i","n","e","d">> >>
official_keywords(movie_title_lower) ==
    <<<<"o","f","f","i","c","i","a","l">>, <<"s","t","u","d","i","o">>, movie_title_lower>>

\* how many of the keywords occur in title
Hits(keywords, title) == Cardinality({i \in DOMAIN keywords : Contains(title, keywords[i])})

\* re.search(r'\(\d+\)', title)
HasParenNumber(title) ==
    \E i, j \in 1..Len(title) :
        /\ i + 1 < j
        /\ title[i] = "(" /\ title[j] = ")"
        /\ \A k \in (i + 1)..(j - 1) : IsDigit(title[k])

\* lines 162-207: the score of the video at place i (from 0)
Score(movie_title, durations, video, i) ==
    LET movie_title_lower == Lower(movie_title)
        title == video.title
        duration == durations[video.url]
    IN  (IF Contains(title, movie_title_lower) THEN 15 ELSE 0)
        + 10 * Hits(official_keywords(movie_title_lower), title)
        + 8 * Hits(trailer_keywords, title)
        - 25 * Hits(bad_keywords, title)
        - (IF Len(Split(title)) > 8 THEN 5 ELSE 0)
        + (15 - i)
        + (IF Contains(title, <<"o","f","f","i","c","i","a","l"," ","t","r","a","i","l","e","r">>) THEN 20 ELSE 0)
        - (IF HasParenNumber(title) THEN 10 ELSE 0)
        - (IF duration # <<>> /\ _is_short_video(duration) THEN 30 ELSE 0)

BestTrailer_FirstAtThreshold(movie_title, durations, doc) ==
    LET links == VideoLinks(doc)
    IN  IF links = <<>> THEN <<>>
        ELSE IF Score(movie_title, durations, links[1], 0) >= 5 THEN links[1].url
        ELSE <<>>

BestTrailer_LastOfTies(movie_title, durations, doc) ==
    LET links == VideoLinks(doc)
        score(i) == Score(movie_title, durations, links[i], i - 1)
    IN  IF links = <<>> THEN <<>>
        ELSE LET best == CHOOSE i \in 1..Len(links) :
                            /\ \A j \in 1..Len(links) : score(j) <= score(i)
                            /\ \A j \in (i + 1)..Len(links) : score(j) < score(i)
             IN  IF score(best) > 5 THEN links[best].url ELSE <<>>

\* lines 162-207: scored_videos, the scores of the videos in page order
Scored(movie_title, durations, doc) ==
    [i \in 1..Len(VideoLinks(doc)) |->
        Score(movie_title, durations, VideoLinks(doc)[i], i - 1)]

\* lines 209-214: the sort by score is stable, also with reverse=True, so
\* scored_videos[0] is the first video of the page with the highest score;
\* it is returned if that score is above 5
BestTrailer(movie_title, durations, doc) ==
    LET links == VideoLinks(doc)
        score(i) == Score(movie_title, durations, links[i], i - 1)
    IN  IF links = <<>> THEN <<>>
        ELSE LET best == CHOOSE i \in 1..Len(links) :
                            /\ \A j \in 1..Len(links) : score(j) <= score(i)
                            /\ \A j \in 1..(i - 1) : score(j) < score(i)
             IN  IF score(best) > 5 THEN links[best].url ELSE <<>>

\* the result pages the video site answers with
TrailerDocs ==
    { [NoMarkup EXCEPT !.script = TRUE, !.video_ids = <<"v2", "v1">>,
                       !.titles = <<<<"U","p"," ","T","e","a","s","e","r">>,
                                    <<"U","p"," ","O","f","f","i","c","i","a","l"," ","T","r","a","i","l","e","r">>>>,
                       !.durations = <<<<"4","5"," ","s","e","c","o","n","d","s">>, <<"2","0"," ","s","e","c","o","n","d","s">>>>],
      [NoMarkup EXCEPT !.script = TRUE, !.video_ids = <<"v2">>,
                       !.titles = <<<<"F","a","n"," ","c","u","t"," ","(","2",")">>>>,
                       !.durations = <<<<"4","5"," ","s","e","c","o","n","d","s">>>>],
      [NoMarkup EXCEPT !.anchors =
          <<[href |-> "v1", label |-> <<"O","f","f","i","c","i","a","l"," ","T","e","a","s","e","r"," ","T","r","a","i","l","e","r">>],
            [href |-> "v2", label |-> <<"U","p"," ","S","t","u","d","i","o">>]>>],
      NoMarkup,
      [NoMarkup EXCEPT !.malformed = TRUE] }

VideoUrls == {YtUrl("v1"), YtUrl("v2")}

(***************************************************************************)
(* SpecGen: search_movie builds the candidate list of one (title, year).  *)
(* The titles are the texts of one to MaxWords words of Vocabulary and    *)
(* the NamedTitles.                                                        *)
(***************************************************************************)
MaxWords == 2

Vocabulary ==
    << <<"T","h","e">>, <<"A">>, <<"a","n">>, <<"M","a","t","r","i","x">>,
       <<"o","f">>, <<"U","p",":">>, <<"-">>, <<"I","t","'","s">>,
       <<"E","p","i","s","o","d","e">>, <<"I">>, <<"X","-","2">>, <<"#","1">> >>

RECURSIVE WordSeqs(_)
WordSeqs(n) ==
    IF n = 0 THEN {<<>>}
    ELSE {Append(ws, Vocabulary[i]) : ws \in WordSeqs(n - 1), i \in DOMAIN Vocabulary}

TheMatrix == <<"T","h","e"," ","M","a","t","r","i","x">>

NamedTitles ==
    { TheMatrix,
      <<"S","t","a","r"," ","W","a","r","s",":"," ","E","p","i","s","o","d","e"," ",
        "I"," ","-"," ","T","h","e"," ","P","h","a","n","t","o","m">>,
      <<"E","p","i","s","o","d","e"," ","I","I">>,
      <<"E","p","i","s","o","d","e"," ","I","I","I">>,
      <<"E","p","i","s","o","d","e"," ","I","V">>,
      <<"E","p","i","s","o","d","e"," "," ","V">>,
      <<"E","p","i","s","o","d","e"," ","V","I">>,
      <<"E","p","i","s","o","d","e"," ","I","X">>,
      <<"P","a","r","t"," ","o","f"," ","M","e">>,
      <<"T","h","e"," ","U","p"," ","-"," ","A"," ","M","a","t","r","i","x"," ","o","f"," ","I","t">>,
      <<"t","h","e","_","U","p">>,
      <<"W","A","L","L",".","E">>,
      <<"!","!","!">> }

Titles ==
    {Join(ws) : ws \in UNION {WordSeqs(n) : n \in 1..MaxWords}} \cup NamedTitles

Years == {1999, 2009}

GenInit ==
    /\ RateIdle
    /\ PoolIdle
    /\ AgentIdle
    /\ TmdbIdle
    /\ ExtractIdle
    /\ RankIdle
    /\ g_title \in Titles
    /\ g_year \in Years
    /\ g_pc = "start"
    /\ g_possible = <<>>
    /\ g_unique = <<>>

\* search_movie, lines 117-245
Generate ==
    /\ g_pc = "start"
    /\ IF HasDeniedChar(g_title)
       THEN /\ g_pc' = "rejected"
            /\ UNCHANGED <<g_possible, g_unique>>
       ELSE /\ g_pc' = "generated"
            /\ g_possible' = possible_urls(g_title, g_year)
            /\ g_unique' = unique_urls(g_title, g_year)
    /\ UNCHANGED <<g_title, g_year>>
    /\ UNCHANGED <<rateVars, poolVars, extractVars, rankVars, agentVars, tmdbVars>>

GenNext == Generate

SpecGen == GenInit /\ [][GenNext]_vars

(***************************************************************************)
(* SpecExtract: the strategies of search_movie, lines 259-329, on one     *)
(* page.                                                                   *)
(***************************************************************************)
\* the texts matching \d+% of a page
PercentLists ==
    { <<>>,
      <<[critics |-> TRUE, audience |-> FALSE, value |-> 50]>>,
      <<[critics |-> FALSE, audience |-> TRUE, value |-> 40]>>,
      <<[critics |-> TRUE, audience |-> TRUE, value |-> 50],
        [critics |-> FALSE, audience |-> TRUE, value |-> 40]>> }

\* the pages: every markup is there or not, the rt-text critics score may be
\* a text without a positive number; a score-board attribute needs the element
ExtractDocs ==
    { d \in [rt_critics : {-1, 0, 90}, rt_audience : {-1, 80},
              score_board : BOOLEAN, sb_critics : {-1, 60}, sb_popcorn : {-1, 70},
              percents : PercentLists,
              qa_tomato : {-1, 30}, qa_audience : {-1, 20}, malformed : BOOLEAN,
              script : {FALSE}, video_ids : {<<>>}, titles : {<<>>},
              durations : {<<>>}, anchors : {<<>>}] :
        /\ ~d.score_board => d.sb_critics = -1 /\ d.sb_popcorn = -1
        /\ d.malformed => d = [NoMarkup EXCEPT !.malformed = TRUE] }

ExtractInit ==
    /\ RateIdle
    /\ PoolIdle
    /\ AgentIdle
    /\ TmdbIdle
    /\ GenIdle
    /\ RankIdle
    /\ x_doc \in ExtractDocs
    /\ x_pc = "start"
    /\ x_after = <<>>

\* lines 257-320: BeautifulSoup(...) and the strategies in their order
Extraction ==
    /\ x_pc = "start"
    /\ IF x_doc.malformed
       THEN /\ x_pc' = "raised"
            /\ UNCHANGED x_after
       ELSE /\ x_pc' = "extracted"
            /\ x_after' =
                   LET s1 == Strategy1(x_doc)
                       s2 == Strategy2(x_doc, s1)
                       s3 == Strategy3(x_doc, s2)
                   IN  <<s1, s2, s3, Extract(x_doc)>>
    /\ UNCHANGED x_doc
    /\ UNCHANGED <<rateVars, poolVars, genVars, rankVars, agentVars, tmdbVars>>

ExtractNext == Extraction

SpecExtract == ExtractInit /\ [][ExtractNext]_vars

(***************************************************************************)
(* SpecRank: the scoring loop of search_trailer, lines 147-207, on a      *)
(* video title that holds the movie title and "official trailer" and on   *)
(* one that holds neither, at the same place and with the same duration.  *)
(***************************************************************************)
MaxPlace == 2

Up == <<"U","p">>

RankTitles ==
    { Up,
      <<"G","l","a","d","i","a","t","o","r">>,
      <<"K","r","a","m","e","r"," ","v","s","."," ","K","r","a","m","e","r">>,
      <<"D","e","l","e","t","e","d"," ","S","c","e","n","e","s">>,
      <<"B","a","d"," ","D","e","l","e","t","e","d"," ","S","c","e","n","e">> }

RankRests ==
    { <<>>,
      <<"T","e","a","s","e","r">>,
      <<"C","l","i","p"," ","(","2",")">>,
      <<"F","a","n"," ","M","a","d","e">> }

RankDurations ==
    { <<>>,
      <<"2","0"," ","s","e","c","o","n","d","s">>,
      <<"2"," ","m","i","n","u","t","e","s">> }

OfficialTrailer == <<"O","f","f","i","c","i","a","l"," ","T","r","a","i","l","e","r">>

\* the video title made of the movie title, the phrase and the rest
WithBoth(movie_title, rest) ==
    movie_title \o <<" ">> \o OfficialTrailer
        \o (IF rest = <<>> THEN <<>> ELSE <<" ">> \o rest)

RankInit ==
    /\ RateIdle
    /\ PoolIdle
    /\ AgentIdle
    /\ TmdbIdle
    /\ GenIdle
    /\ ExtractIdle
    /\ k_movie \in RankTitles
    /\ k_place \in 0..MaxPlace
    /\ k_duration \in RankDurations
    /\ k_rest \in RankRests
    /\ k_pc = "start"
    /\ k_scores = <<>>

\* lines 162-207: the scores of the two titles; line 141 (126): the titles
\* are lower-cased when they are collected
Rank ==
    /\ k_pc = "start"
    /\ k_pc' = "scored"
    /\ k_scores' =
           LET url == YtUrl("v1")
               durations == [u \in {url} |-> k_duration]
               score(title) ==
                   Score(k_movie, durations, [url |-> url, title |-> Lower(title)], k_place)
           IN  <<score(WithBoth(k_movie, k_rest)), score(k_rest)>>
    /\ UNCHANGED <<k_movie, k_place, k_duration, k_rest>>
    /\ UNCHANGED <<rateVars, poolVars, genVars, extractVars, agentVars, tmdbVars>>

RankNext == Rank

SpecRank == RankInit /\ [][RankNext]_vars

(***************************************************************************)
(* Spec: update_movie_ratings (pipeline "rt") or update_movie_trailers    *)
(* (pipeline "trailer") over a catalog of NRecords records, with a pool   *)
(* of max_workers threads.                                                 *)
(***************************************************************************)
NRecords == 2

\* a record of the catalog, not enriched yet; has_ratings and has_media say
\* whether the 'ratings' and 'media' sub-structures are there
Fresh ==
    [title |-> Up, release_year |-> 2009, release_date |-> <<"2","0","0","9","-","0","5","-","2","9">>,
     has_ratings |-> TRUE, rt_tomatometer |-> 0, rt_audience |-> 0,
     has_media |-> TRUE, trailer_youtube |-> <<>>]

Enriched ==
    [Fresh EXCEPT !.rt_tomatometer = 50, !.rt_audience = 60,
                  !.trailer_youtube = YtUrl("v0")]

\* the kinds of record: enriched by an earlier run (NRecords times, for a
\* catalog of nothing else), fresh, without the sub-structures, with no release date,
\* with a release date that is no date, with no title
Undated == [Fresh EXCEPT !.release_year = 0, !.release_date = <<>>]

Untitled == [Fresh EXCEPT !.title = <<>>]

RecordKinds ==
    [i \in 1..NRecords |-> Enriched] \o
    << Fresh,
       [Fresh EXCEPT !.has_ratings = FALSE, !.has_media = FALSE],
       Undated,
       [Fresh EXCEPT !.release_year = 0, !.release_date = <<"T","B","A">>],
       Untitled >>

\* a catalog shorter than the pool is wide, and one that the batch size does
\* not divide
\* a record whose title holds a character of line 118
Hashed == [Fresh EXCEPT !.title = <<"#","1">>]

OddCatalogs == { <<>>, <<Fresh>>, <<Untitled, Undated, Fresh, Untitled, Undated>>, <<Hashed>> }

\* the catalogs: NRecords kinds in a row, from each place of RecordKinds, and
\* the odd ones
Catalogs ==
    { [i \in 1..NRecords |-> RecordKinds[((k + i - 2) % Len(RecordKinds)) + 1]] :
        k \in 1..Len(RecordKinds) }
    \cup OddCatalogs

\* search_movie, lines 117-245, for the titles and years of the catalogs
Candidates ==
    [title \in {RecordKinds[i].title : i \in DOMAIN RecordKinds} \cup {Hashed.title},
     year \in {RecordKinds[i].release_year : i \in DOMAIN RecordKinds} |->
        unique_urls(title, year)]

\* search_trailer, lines 114-214, for the titles of the catalogs, the
\* durations self.video_durations can hold and the pages: the durations after
\* method 1, scored_videos and the url returned (@@ makes the function a
\* table that is computed once)
DurationLabels ==
    {<<>>} \cup UNION {Range(d.durations) : d \in TrailerDocs}

Rankings ==
    <<>> @@
    [title \in {RecordKinds[i].title : i \in DOMAIN RecordKinds} \cup {Hashed.title},
     durations \in [VideoUrls -> DurationLabels],
     doc \in TrailerDocs |->
        LET stored == StoreDurations(durations, doc)
        IN  [video_durations |-> stored,
             scored_videos |-> Scored(title, stored, doc),
             url |-> BestTrailer(title, stored, doc)]]

\* Retry(total=3, ...) of the session, and its status_forcelist
total == 3

status_forcelist_With404(pipe) == {403, 404, 429, 500, 502, 503, 504}

status_forcelist(pipe) ==
    IF pipe = "rt" THEN {403, 429, 500, 502, 503, 504}
    ELSE {429, 500, 502, 503, 504}

\* len(self.user_agents)
UserAgents(pipe) == IF pipe = "rt" THEN 4 ELSE 3

StatusCodes == {200, 403, 404, 410, 429, 500}

\* what one request of the adapter can end in: an HTTP response, a
\* connection error or timeout (retried by Retry), or another
\* requests.RequestException (not retried)
Answers(pipe) ==
    {[kind |-> "http", status |-> 200, doc |-> d] :
        d \in IF pipe = "rt" THEN RtDocs ELSE TrailerDocs}
    \cup {[kind |-> "http", status |-> c, doc |-> NoMarkup] : c \in StatusCodes \ {200}}
    \cup {[kind |-> k, status |-> 0, doc |-> NoMarkup] : k \in {"neterr", "reqerr"}}

IsRetried_ErrorsOnly(pipe, r) == r.kind = "neterr"

\* urllib3 Retry: a connection error, a timeout or a status of the forcelist
IsRetried(pipe, r) ==
    \/ r.kind = "neterr"
    \/ r.kind = "http" /\ r.status \in status_forcelist(pipe)

BackoffTime_Flat(n) == IF n <= 1 THEN 0 ELSE 1

\* Retry.get_backoff_time with backoff_factor = 0.5, in half seconds:
\* nothing before the first retry, then 0.5 * 2 ** (n - 1) seconds
BackoffTime(n) == IF n <= 1 THEN 0 ELSE 2 ^ (n - 1)

\* lines 380-381 (253-254): the batches of a list of n records
BatchSize(n, workers) == IF n \div workers >= 1 THEN n \div workers ELSE 1

RECURSIVE Slices_WholeOnly(_, _)
Slices_WholeOnly(ids, size) ==
    IF Len(ids) < size THEN <<>>
    ELSE <<SubSeq(ids, 1, size)>> \o Slices_WholeOnly(SubSeq(ids, size + 1, Len(ids)), size)

RECURSIVE Slices(_, _)
Slices(ids, size) ==
    IF ids = <<>> THEN <<>>
    ELSE IF Len(ids) <= size THEN <<ids>>
    ELSE <<SubSeq(ids, 1, size)>> \o Slices(SubSeq(ids, size + 1, Len(ids)), size)

\* release_date[:4] if release_date else ''
DateYear(rec) == Take(rec.release_date, 4)

\* int(year) raises ValueError
BadYear(text) == \E i \in 1..Len(text) : ~IsDigit(text[i])

PoolInit ==
    /\ RateIdle
    /\ PureIdle
    /\ AgentIdle
    /\ TmdbIdle
    /\ pipeline \in {"rt", "trailer"}
    /\ max_workers \in PoolSizes
    /\ movies \in Catalogs
    /\ batches = <<>>
    /\ future = <<>>
    /\ batch_results = <<>>
    /\ all_results = <<>>
    /\ main_pc = "start"
    /\ success_count = 0
    /\ movies_lock = 0
    /\ current_ua_index = 0
    /\ video_durations = [u \in VideoUrls |-> <<>>]
    /\ w_pc = [w \in PoolThreads |-> "idle"]
    /\ w_batch = [w \in PoolThreads |-> 0]
    /\ w_pos = [w \in PoolThreads |-> 0]
    /\ w_results = [w \in PoolThreads |-> <<>>]
    /\ w_urls = [w \in PoolThreads |-> <<>>]
    /\ w_ci = [w \in PoolThreads |-> 0]
    /\ w_n = [w \in PoolThreads |-> 0]
    /\ w_result = [w \in PoolThreads |-> NoResult]
    /\ w_count = [w \in PoolThreads |-> 0]
    /\ w_scored = [w \in PoolThreads |-> <<>>]
    /\ w_all429 = [w \in PoolThreads |-> FALSE]
    /\ w_all404 = [w \in PoolThreads |-> FALSE]
    /\ w_slept = [w \in PoolThreads |-> FALSE]
    /\ w_tried = [w \in PoolThreads |-> {}]
    /\ w_good = [w \in PoolThreads |-> {}]
    /\ w_error = [w \in PoolThreads |-> 0]
    /\ w_last = [w \in PoolThreads |-> NoAnswer]
    /\ fetch_failed = TRUE
    /\ movies_before = movies

\* update_movie_ratings, lines 380-392: split into batches and submit them
Submit ==
    /\ main_pc = "start"
    /\ batches' = Slices([i \in 1..Len(movies) |-> i],
                         BatchSize(Len(movies), max_workers))
    /\ future' = [b \in 1..Len(batches') |-> "queued"]
    /\ batch_results' = [b \in 1..Len(batches') |-> <<>>]
    /\ main_pc' = "collect"
    /\ UNCHANGED <<all_results, catalogVars, sharedVars, workerVars, historyVars, runVars>>
    /\ UNCHANGED <<rateVars, pureVars, w_count, agentVars, tmdbVars>>
    /\ UNCHANGED w_scored

MayRun_Always(w, workers) == TRUE

\* ThreadPoolExecutor(max_workers=...), line 388 (261): the executor starts
\* no more than max_workers threads
MayRun(w, workers) == w <= workers

\* a free thread of the executor takes the oldest queued batch (the threads
\* are interchangeable: the free thread of the lowest number stands for any)
TakeBatch(w) ==
    /\ MayRun(w, max_workers)
    /\ w_pc[w] = "idle"
    /\ \A v \in 1..(w - 1) : w_pc[v] # "idle"
    /\ \E b \in DOMAIN future :
          /\ future[b] = "queued"
          /\ \A c \in 1..(b - 1) : future[c] # "queued"
          /\ future' = [future EXCEPT ![b] = "running"]
          /\ w_batch' = [w_batch EXCEPT ![w] = b]
    /\ w_pos' = [w_pos EXCEPT ![w] = 1]
    /\ w_results' = [w_results EXCEPT ![w] = <<>>]
    /\ w_pc' = [w_pc EXCEPT ![w] = "loop"]
    /\ UNCHANGED <<batches, batch_results, all_results, main_pc>>
    /\ UNCHANGED <<w_urls, w_ci, w_n, w_result>>
    /\ UNCHANGED <<catalogVars, sharedVars, historyVars, runVars, rateVars, pureVars, w_count, agentVars, tmdbVars>>
    /\ UNCHANGED w_scored

\* the record a thread is at
Movie(w) == batches[w_batch[w]][w_pos[w]]

Catches_SameClass(clause, exc) == clause = exc

\* an except clause catches the exceptions of its class: the exceptions
\* here are RequestException, AttributeError, KeyError and ValueError, all of
\* them subclasses of Exception
Catches(clause, exc) == clause = "Exception" \/ clause = exc

\* the locals of search_movie / search_trailer are gone once it has returned
\* and its result is used
Forgotten(w) ==
    /\ w_urls' = [w_urls EXCEPT ![w] = <<>>]
    /\ w_ci' = [w_ci EXCEPT ![w] = 0]
    /\ w_n' = [w_n EXCEPT ![w] = 0]
    /\ w_result' = [w_result EXCEPT ![w] = NoResult]
    /\ w_all429' = [w_all429 EXCEPT ![w] = FALSE]
    /\ w_all404' = [w_all404 EXCEPT ![w] = FALSE]
    /\ w_slept' = [w_slept EXCEPT ![w] = FALSE]
    /\ w_tried' = [w_tried EXCEPT ![w] = {}]
    /\ w_good' = [w_good EXCEPT ![w] = {}]
    /\ w_error' = [w_error EXCEPT ![w] = 0]
    /\ w_last' = [w_last EXCEPT ![w] = NoAnswer]
    /\ w_scored' = [w_scored EXCEPT ![w] = <<>>]

\* results.append(movie) and on to the next record of the batch
Appended(w) ==
    /\ w_results' = [w_results EXCEPT ![w] = Append(@, Movie(w))]
    /\ w_pos' = [w_pos EXCEPT ![w] = @ + 1]
    /\ w_pc' = [w_pc EXCEPT ![w] = "loop"]
    /\ UNCHANGED w_batch

\* process_movie_batch, lines 84-86 (239-241): except Exception, and the
\* record is appended; an exception that it let through would end the batch
\* and be the result of its future
Except(w, exc) ==
    IF Catches("Exception", exc)
    THEN /\ Appended(w)
         /\ UNCHANGED future
    ELSE /\ future' = [future EXCEPT ![w_batch[w]] = "failed"]
         /\ w_pc' = [w_pc EXCEPT ![w] = "idle"]
         /\ w_batch' = [w_batch EXCEPT ![w] = 0]
         /\ w_pos' = [w_pos EXCEPT ![w] = 0]
         /\ w_results' = [w_results EXCEPT ![w] = <<>>]

\* search_movie / search_trailer returns result, on the answer r
Returned(w, result, r) ==
    /\ w_pc' = [w_pc EXCEPT ![w] = "returned"]
    /\ w_result' = [w_result EXCEPT ![w] = result]
    /\ w_last' = [w_last EXCEPT ![w] = r]
    /\ UNCHANGED <<w_batch, w_pos, w_results, w_urls, w_ci>>

\* search_movie / search_trailer lets an exception through, on the answer r
Raised(w, r) ==
    /\ w_pc' = [w_pc EXCEPT ![w] = "raised"]
    /\ w_last' = [w_last EXCEPT ![w] = r]
    /\ UNCHANGED <<w_batch, w_pos, w_results, w_urls, w_ci, w_result>>

Skipped_NoTitle(pipe, movie) == movie.title = <<>>

\* line 73 (228): if title and year fails
Skipped(pipe, movie) ==
    \/ movie.title = <<>>
    \/ pipe = "rt" /\ movie.release_year = 0
    \/ pipe = "trailer" /\ DateYear(movie) = <<>>

\* process_movie_batch, lines 68-74 (223-229): the next record of the batch;
\* search_movie, lines 117-245
StartRecord(w) ==
    /\ w_pc[w] = "loop"
    /\ w_pos[w] <= Len(batches[w_batch[w]])
    /\ LET movie == movies[Movie(w)]
           skipped == Skipped(pipeline, movie)
       IN  IF skipped
           THEN /\ Appended(w)
                /\ UNCHANGED <<future, w_urls, w_ci, w_n, w_result, historyVars>>
           ELSE IF pipeline = "trailer" /\ BadYear(DateYear(movie))
           THEN \* int(year): ValueError
                /\ Except(w, "ValueError")
                /\ UNCHANGED <<w_urls, w_ci, w_n, w_result, historyVars>>
           ELSE /\ w_all404' = [w_all404 EXCEPT ![w] = TRUE]
                /\ w_slept' = [w_slept EXCEPT ![w] = FALSE]
                /\ w_tried' = [w_tried EXCEPT ![w] = {}]
                /\ w_good' = [w_good EXCEPT ![w] = {}]
                /\ w_error' = [w_error EXCEPT ![w] = 0]
                /\ UNCHANGED <<future, w_all429, w_n>>
                /\ IF pipeline = "rt" /\ HasDeniedChar(movie.title)
                   THEN Returned(w, NoResult, NoAnswer)
                   ELSE /\ UNCHANGED w_last
                        /\ w_urls' = [w_urls EXCEPT ![w] =
                              IF pipeline = "rt"
                              THEN Candidates[movie.title, movie.release_year]
                              ELSE <<<<"https://www.youtube.com/results?search_query=">>
                                     \o movie.title \o <<" ">>
                                     \o IntStr(StrInt(DateYear(movie)))
                                     \o <<" official trailer">>>>]
                        /\ w_ci' = [w_ci EXCEPT ![w] = 1]
                        /\ w_pc' = [w_pc EXCEPT ![w] = "cand"]
                        /\ UNCHANGED <<w_batch, w_pos, w_results, w_result>>
    /\ UNCHANGED <<batches, batch_results, all_results, main_pc>>
    /\ UNCHANGED <<catalogVars, sharedVars, runVars, rateVars, pureVars, w_count, agentVars, tmdbVars>>
    /\ UNCHANGED w_scored

\* lines 250-253 (93-103): self._rate_limit() and the headers of the request,
\* with the next user agent.  The timing of _rate_limit is SpecRate's, the
\* interleaving of the rotation is SpecAgent's.
RateLimit(w) ==
    /\ w_pc[w] = "cand"
    /\ current_ua_index' = (current_ua_index + 1) % UserAgents(pipeline)
    /\ w_pc' = [w_pc EXCEPT ![w] = "send"]
    /\ w_n' = [w_n EXCEPT ![w] = 0]
    /\ w_all429' = [w_all429 EXCEPT ![w] = TRUE]
    /\ UNCHANGED <<success_count, movies_lock, video_durations>>
    /\ UNCHANGED <<w_batch, w_pos, w_results, w_urls, w_ci, w_result>>
    /\ UNCHANGED <<w_all404, w_slept, w_tried, w_good, w_error, w_last>>
    /\ UNCHANGED <<catalogVars, mainVars, runVars, rateVars, pureVars, w_count, agentVars, tmdbVars>>
    /\ UNCHANGED w_scored

NextCandidate_GiveUp(w, r) == Returned(w, NoResult, r)

NextCandidate_Again(w, r) ==
    /\ w_pc' = [w_pc EXCEPT ![w] = "cand"]
    /\ UNCHANGED <<w_batch, w_pos, w_results, w_urls, w_ci, w_result, w_last>>

\* search_movie: continue with the next url, or line 344 after the last one
NextCandidate(w, r) ==
    IF w_ci[w] < Len(w_urls[w])
    THEN /\ w_ci' = [w_ci EXCEPT ![w] = @ + 1]
         /\ w_pc' = [w_pc EXCEPT ![w] = "cand"]
         /\ UNCHANGED <<w_batch, w_pos, w_results, w_urls, w_result, w_last>>
    ELSE Returned(w, NoResult, r)

\* the scores of a document as search_movie returns them
Scores(doc) ==
    [NoResult EXCEPT !.tomatometer = Extract(doc).tomatometer,
                     !.audience = Extract(doc).audience]

HasScore(doc) == Extract(doc).tomatometer > 0 \/ Extract(doc).audience > 0

\* search_movie, lines 256-348: what the loop body does with the answer r of
\* session.get, or with the exception exc raised on the way
HandleRt(w, r, exc) ==
    IF exc # "none"
    THEN IF Catches("RequestException", exc)
         THEN \* line 340: time.sleep(0.5); continue
              /\ NextCandidate(w, r)
              /\ w_slept' = [w_slept EXCEPT ![w] = TRUE]
         ELSE IF Catches("Exception", exc)
         THEN \* lines 346-348: the all-zero mapping
              /\ Returned(w, NoResult, r)
              /\ UNCHANGED w_slept
         ELSE /\ Raised(w, r)
              /\ UNCHANGED w_slept
    ELSE IF r.status = 200
    THEN IF HasScore(r.doc)
         THEN /\ Returned(w, Scores(r.doc), r)
              /\ UNCHANGED w_slept
         ELSE /\ NextCandidate(w, r)
              /\ UNCHANGED w_slept
    ELSE IF r.status = 403
    THEN \* time.sleep(2); continue
         /\ NextCandidate(w, r)
         /\ w_slept' = [w_slept EXCEPT ![w] = TRUE]
    ELSE \* 404: continue; any other status: the end of the loop body
         /\ NextCandidate(w, r)
         /\ UNCHANGED w_slept

\* search_trailer, lines 105-218
HandleTrailer(w, r, exc) ==
    /\ UNCHANGED w_slept
    /\ IF exc # "none"
       THEN /\ UNCHANGED video_durations
            /\ IF Catches("Exception", exc)
               THEN \* lines 216-218: None
                    Returned(w, NoResult, r)
               ELSE Raised(w, r)
       ELSE LET ranking == Rankings[movies[Movie(w)].title, video_durations, r.doc]
            IN  /\ video_durations' = ranking.video_durations
                /\ Returned(w, [NoResult EXCEPT !.trailer = ranking.url], r)

RaisedBy_ErrorEscapes(pipe, r) ==
    IF r.kind # "http" THEN "AttributeError"
    ELSE IF r.status \in status_forcelist(pipe) THEN "RequestException"
    ELSE IF pipe = "trailer" /\ r.status >= 400 THEN "RequestException"
    ELSE IF r.status = 200 /\ r.doc.malformed THEN "AttributeError"
    ELSE "none"

\* what session.get, raise_for_status (in search_trailer) or the parsing of
\* the document raises when the adapter hands over the answer r
RaisedBy(pipe, r) ==
    IF r.kind # "http" THEN "RequestException"
    ELSE IF r.status \in status_forcelist(pipe) THEN "RequestException"
    ELSE IF pipe = "trailer" /\ r.status >= 400 THEN "RequestException"
    ELSE IF r.status = 200 /\ r.doc.malformed THEN "AttributeError"
    ELSE "none"

\* session.get, line 254 (105): the adapter sends the request; on an answer
\* that Retry retries it backs off and sends again, until total is used up
Send(w) ==
    /\ w_pc[w] = "send"
    /\ \E r \in Answers(pipeline) :
          /\ w_tried' = [w_tried EXCEPT ![w] = @ \cup {w_ci[w]}]
          /\ w_good' = [w_good EXCEPT ![w] =
                           IF /\ pipeline = "rt"
                              /\ RaisedBy(pipeline, r) = "none"
                              /\ r.status = 200
                              /\ HasScore(r.doc)
                           THEN @ \cup {w_ci[w]} ELSE @]
          /\ w_error' = [w_error EXCEPT ![w] =
                             IF r.kind # "http" /\ ~(IsRetried(pipeline, r) /\ w_n[w] < total)
                             THEN w_ci[w] ELSE @]
          /\ w_all404' = [w_all404 EXCEPT ![w] =
                             @ /\ r.kind = "http" /\ r.status = 404]
          /\ fetch_failed' = (fetch_failed /\ ~(r.kind = "http" /\ r.status = 200))
          /\ w_n' = [w_n EXCEPT ![w] = @ + 1]
          /\ w_scored' = [w_scored EXCEPT ![w] =
                             IF /\ pipeline = "trailer"
                                /\ ~(IsRetried(pipeline, r) /\ w_n[w] < total)
                                /\ RaisedBy(pipeline, r) = "none"
                             THEN Rankings[movies[Movie(w)].title, video_durations, r.doc].scored_videos
                             ELSE @]
          /\ IF IsRetried(pipeline, r) /\ w_n[w] < total
             THEN /\ w_pc' = [w_pc EXCEPT ![w] = "backoff"]
                  /\ w_all429' = [w_all429 EXCEPT ![w] =
                                     @ /\ r.kind = "http" /\ r.status = 429]
                  /\ UNCHANGED <<w_batch, w_pos, w_results, w_urls, w_ci, w_result>>
                  /\ UNCHANGED <<w_slept, w_last, video_durations>>
             ELSE /\ UNCHANGED w_all429
                  /\ IF pipeline = "rt"
                     THEN /\ HandleRt(w, r, RaisedBy(pipeline, r))
                          /\ UNCHANGED video_durations
                     ELSE HandleTrailer(w, r, RaisedBy(pipeline, r))
    /\ UNCHANGED <<success_count, movies_lock, current_ua_index, movies_before>>
    /\ UNCHANGED <<catalogVars, mainVars, rateVars, pureVars, w_count, agentVars, tmdbVars>>

\* Retry.sleep before the next try of the adapter
Backoff(w) ==
    /\ w_pc[w] = "backoff"
    /\ w_pc' = [w_pc EXCEPT ![w] = "send"]
    /\ w_slept' = [w_slept EXCEPT ![w] = @ \/ BackoffTime(w_n[w]) > 0]
    /\ UNCHANGED <<w_batch, w_pos, w_results, w_urls, w_ci, w_n, w_result>>
    /\ UNCHANGED <<w_all429, w_all404, w_tried, w_good, w_error, w_last>>
    /\ UNCHANGED <<catalogVars, mainVars, sharedVars, runVars, rateVars, pureVars, w_count, agentVars, tmdbVars>>
    /\ UNCHANGED w_scored

\* lines 75-77: the scores go into the record
WriteRatings(rec, rt_data) ==
    [rec EXCEPT !.rt_tomatometer = rt_data.tomatometer,
                !.rt_audience = rt_data.audience]

\* lines 231-233: the url goes into the record
WriteTrailer(rec, trailer_url) ==
    [rec EXCEPT !.has_media = TRUE, !.trailer_youtube = trailer_url]

Resolved_Always(pipe, result) == TRUE

\* line 75 (230): the search found something
Resolved(pipe, result) ==
    IF pipe = "rt" THEN result.tomatometer > 0 \/ result.audience > 0
    ELSE result.trailer # <<>>

\* process_movie_batch, lines 75-86 (230-242): the result goes into the record
Merge(w) ==
    /\ w_pc[w] \in {"returned", "raised"}
    /\ LET movie == movies[Movie(w)]
           found == Resolved(pipeline, w_result[w])
       IN  /\ Forgotten(w)
           /\ IF w_pc[w] = "raised"
              THEN \* what the search let through is no RequestException
                   /\ Except(w, "AttributeError")
                   /\ UNCHANGED movies
              ELSE IF ~found
              THEN /\ Appended(w)
                   /\ UNCHANGED <<movies, future>>
              ELSE IF pipeline = "rt" /\ ~movie.has_ratings
              THEN \* movie['ratings']: KeyError
                   /\ Except(w, "KeyError")
                   /\ UNCHANGED movies
              ELSE /\ movies' = [movies EXCEPT ![Movie(w)] =
                                    IF pipeline = "rt"
                                    THEN WriteRatings(movie, w_result[w])
                                    ELSE WriteTrailer(movie, w_result[w].trailer)]
                   /\ w_pc' = [w_pc EXCEPT ![w] = "lock"]
                   /\ UNCHANGED <<future, w_batch, w_pos, w_results>>
    /\ UNCHANGED <<batches, batch_results, all_results, main_pc>>
    /\ UNCHANGED <<pipeline, max_workers, sharedVars, runVars, rateVars, pureVars, w_count, agentVars, tmdbVars>>

Acquire_NoLock(w) ==
    /\ w_pc[w] = "lock"
    /\ movies_lock' = w
    /\ w_pc' = [w_pc EXCEPT ![w] = "locked"]
    /\ UNCHANGED <<success_count, current_ua_index, video_durations, w_count>>
    /\ UNCHANGED <<w_batch, w_pos, w_results, w_urls, w_ci, w_n, w_result>>
    /\ UNCHANGED <<catalogVars, mainVars, historyVars, runVars, rateVars, pureVars, agentVars, tmdbVars>>
    /\ UNCHANGED w_scored

\* with self.movies_lock:
Acquire(w) ==
    /\ w_pc[w] = "lock"
    /\ movies_lock = 0
    /\ movies_lock' = w
    /\ w_pc' = [w_pc EXCEPT ![w] = "locked"]
    /\ UNCHANGED <<success_count, current_ua_index, video_durations, w_count>>
    /\ UNCHANGED <<w_batch, w_pos, w_results, w_urls, w_ci, w_n, w_result>>
    /\ UNCHANGED <<catalogVars, mainVars, historyVars, runVars, rateVars, pureVars, agentVars, tmdbVars>>
    /\ UNCHANGED w_scored

\* self.success_count += 1, line 80 (236): the value is read
LoadCount(w) ==
    /\ w_pc[w] = "locked"
    /\ w_count' = [w_count EXCEPT ![w] = success_count]
    /\ w_pc' = [w_pc EXCEPT ![w] = "loaded"]
    /\ UNCHANGED <<w_batch, w_pos, w_results, w_urls, w_ci, w_n, w_result>>
    /\ UNCHANGED <<catalogVars, mainVars, sharedVars, historyVars, runVars, rateVars, pureVars, agentVars, tmdbVars>>
    /\ UNCHANGED w_scored

\* self.success_count += 1: the value read, plus one, is stored; the lock is
\* released; results.append(movie)
Release(w) ==
    /\ w_pc[w] = "loaded"
    /\ success_count' = w_count[w] + 1
    /\ w_count' = [w_count EXCEPT ![w] = 0]
    /\ movies_lock' = 0
    /\ Appended(w)
    /\ UNCHANGED <<w_urls, w_ci, w_n, w_result, historyVars>>
    /\ UNCHANGED <<current_ua_index, video_durations>>
    /\ UNCHANGED <<catalogVars, mainVars, runVars, rateVars, pureVars, agentVars, tmdbVars>>
    /\ UNCHANGED w_scored

\* process_movie_batch returns results: the future is done
FinishBatch(w) ==
    /\ w_pc[w] = "loop"
    /\ w_pos[w] > Len(batches[w_batch[w]])
    /\ future' = [future EXCEPT ![w_batch[w]] = "done"]
    /\ batch_results' = [batch_results EXCEPT ![w_batch[w]] = w_results[w]]
    /\ w_pc' = [w_pc EXCEPT ![w] = "idle"]
    /\ w_batch' = [w_batch EXCEPT ![w] = 0]
    /\ w_pos' = [w_pos EXCEPT ![w] = 0]
    /\ w_results' = [w_results EXCEPT ![w] = <<>>]
    /\ UNCHANGED <<batches, all_results, main_pc>>
    /\ UNCHANGED <<w_urls, w_ci, w_n, w_result>>
    /\ UNCHANGED <<catalogVars, sharedVars, historyVars, runVars, rateVars, pureVars, w_count, agentVars, tmdbVars>>
    /\ UNCHANGED w_scored

\* lines 396-407: as_completed hands over a finished future; the batch itself
\* stands for the results of a future that raised
Collect(b) ==
    /\ main_pc = "collect"
    /\ future[b] \in {"done", "failed"}
    /\ all_results' = all_results \o (IF future[b] = "done" THEN batch_results[b]
                                      ELSE batches[b])
    /\ future' = [future EXCEPT ![b] = "collected"]
    /\ UNCHANGED <<batches, batch_results, main_pc>>
    /\ UNCHANGED <<catalogVars, sharedVars, workerVars, historyVars, runVars, rateVars, pureVars, w_count, agentVars, tmdbVars>>
    /\ UNCHANGED w_scored

\* lines 415-428 (288-301): every future is collected; the final stats
\* divide self.success_count by len(all_results), which raises
\* ZeroDivisionError for no results; else return all_results
Return ==
    /\ main_pc = "collect"
    /\ \A b \in DOMAIN future : future[b] = "collected"
    /\ main_pc' = IF Len(all_results) = 0 THEN "raised" ELSE "done"
    /\ UNCHANGED <<batches, future, batch_results, all_results>>
    /\ UNCHANGED <<catalogVars, sharedVars, workerVars, historyVars, runVars, rateVars, pureVars, w_count, agentVars, tmdbVars>>
    /\ UNCHANGED w_scored

Next ==
    \/ Submit
    \/ \E w \in PoolThreads : TakeBatch(w)
    \/ \E w \in PoolThreads : StartRecord(w)
    \/ \E w \in PoolThreads : RateLimit(w)
    \/ \E w \in PoolThreads : Send(w)
    \/ \E w \in PoolThreads : Backoff(w)
    \/ \E w \in PoolThreads : Merge(w)
    \/ \E w \in PoolThreads : Acquire(w)
    \/ \E w \in PoolThreads : LoadCount(w)
    \/ \E w \in PoolThreads : Release(w)
    \/ \E w \in PoolThreads : FinishBatch(w)
    \/ \E b \in DOMAIN future : Collect(b)
    \/ Return

Init == PoolInit

Spec == Init /\ [][Next]_vars

\* FairSpec: some thread that can take a step takes one, and a request that
\* was sent is answered (Send is enabled whenever a request is out)
FairSpec == Init /\ [][Next]_vars /\ WF_vars(Next)

(***************************************************************************)
(* SpecAgent: the threads of one fetcher in its user-agent rotation,      *)
(* _get_headers (lines 98-112) or _get_next_user_agent (lines 62-66).     *)
(* Neither takes a lock, so the reads and the write of current_ua_index   *)
(* of one call are steps between which another thread can run.            *)
(***************************************************************************)
AgentInit ==
    /\ RateIdle
    /\ PureIdle
    /\ PoolIdle
    /\ TmdbIdle
    /\ ua_fetcher \in {"rt", "trailer"}
    /\ ua_index = 0
    /\ ua_pc = [t \in Threads |-> "idle"]
    /\ ua_read = [t \in Threads |-> 0]
    /\ ua_entry = [t \in Threads |-> 0]
    /\ ua_calls = <<>>

\* _get_headers, line 100: the right-hand side reads self.current_ua_index
GetHeadersLoad(t) ==
    /\ ua_fetcher = "rt"
    /\ ua_pc[t] = "idle"
    /\ Len(ua_calls) < MaxCalls
    /\ ua_read' = [ua_read EXCEPT ![t] = ua_index]
    /\ ua_pc' = [ua_pc EXCEPT ![t] = "loaded"]
    /\ UNCHANGED <<ua_fetcher, ua_index, ua_entry, ua_calls>>
    /\ UNCHANGED <<rateVars, pureVars, poolVars, tmdbVars>>

\* _get_headers, line 100: the assignment
GetHeadersStore(t) ==
    /\ ua_pc[t] = "loaded"
    /\ ua_fetcher = "rt"
    /\ ua_index' = (ua_read[t] + 1) % UserAgents(ua_fetcher)
    /\ ua_pc' = [ua_pc EXCEPT ![t] = "stored"]
    /\ UNCHANGED <<ua_fetcher, ua_read, ua_entry, ua_calls>>
    /\ UNCHANGED <<rateVars, pureVars, poolVars, tmdbVars>>

\* _get_headers, line 102: self.user_agents[self.current_ua_index]
GetHeadersUse(t) ==
    /\ ua_pc[t] = "stored"
    /\ ua_entry' = [ua_entry EXCEPT ![t] = ua_index]
    /\ ua_calls' = Append(ua_calls, ua_index)
    /\ ua_pc' = [ua_pc EXCEPT ![t] = "idle"]
    /\ UNCHANGED <<ua_fetcher, ua_index, ua_read>>
    /\ UNCHANGED <<rateVars, pureVars, poolVars, tmdbVars>>

\* _get_next_user_agent, line 64: ua = self.user_agents[self.current_ua_index]
NextUserAgentUse(t) ==
    /\ ua_fetcher = "trailer"
    /\ ua_pc[t] = "idle"
    /\ Len(ua_calls) < MaxCalls
    /\ ua_entry' = [ua_entry EXCEPT ![t] = ua_index]
    /\ ua_pc' = [ua_pc EXCEPT ![t] = "used"]
    /\ UNCHANGED <<ua_fetcher, ua_index, ua_read, ua_calls>>
    /\ UNCHANGED <<rateVars, pureVars, poolVars, tmdbVars>>

\* _get_next_user_agent, line 65: the right-hand side reads the index
NextUserAgentLoad(t) ==
    /\ ua_pc[t] = "used"
    /\ ua_read' = [ua_read EXCEPT ![t] = ua_index]
    /\ ua_pc' = [ua_pc EXCEPT ![t] = "loaded"]
    /\ UNCHANGED <<ua_fetcher, ua_index, ua_entry, ua_calls>>
    /\ UNCHANGED <<rateVars, pureVars, poolVars, tmdbVars>>

\* _get_next_user_agent, lines 65-66: the assignment, and return ua
NextUserAgentStore(t) ==
    /\ ua_pc[t] = "loaded"
    /\ ua_fetcher = "trailer"
    /\ ua_index' = (ua_read[t] + 1) % UserAgents(ua_fetcher)
    /\ ua_calls' = Append(ua_calls, ua_entry[t])
    /\ ua_pc' = [ua_pc EXCEPT ![t] = "idle"]
    /\ UNCHANGED <<ua_fetcher, ua_read, ua_entry>>
    /\ UNCHANGED <<rateVars, pureVars, poolVars, tmdbVars>>

AgentNext ==
    \/ \E t \in Threads : GetHeadersLoad(t)
    \/ \E t \in Threads : GetHeadersStore(t)
    \/ \E t \in Threads : GetHeadersUse(t)
    \/ \E t \in Threads : NextUserAgentUse(t)
    \/ \E t \in Threads : NextUserAgentLoad(t)
    \/ \E t \in Threads : NextUserAgentStore(t)

SpecAgent == AgentInit /\ [][AgentNext]_vars

(***************************************************************************)
(* SpecTmdb: TMDBDataFetcher.fetch_all_data.  One thread per provider      *)
(* pages through the listing of its provider and enters what it finds in  *)
(* self.movies; when all of them are through, one enrich_movie_details    *)
(* call per id found runs on a pool of self.max_workers threads.          *)
(***************************************************************************)
MaxPages == 2       \* the listing of a provider has no more pages than this

\* the results of a listing page that has some: ids, maybe one twice
ListingPages == {<<1>>, <<1, 2>>, <<2, 2>>}

\* what a request for a listing page can end in: a response with results
\* or without, a status that raise_for_status raises for, or a connection
\* error or timeout
ListingAnswers(pg) ==
    {[kind |-> "http", status |-> 200, results |-> rs] :
        rs \in IF pg <= MaxPages THEN ListingPages \cup {<<>>} ELSE {<<>>}}
    \cup {[kind |-> "http", status |-> c, results |-> <<>>] : c \in {404, 429}}
    \cup {[kind |-> "neterr", status |-> 0, results |-> <<>>]}

\* the data of a details response; genres without a name make the update
\* raise KeyError (line 202)
DetailData ==
    {[runtime |-> 120, genres |-> <<"Drama">>, malformed |-> FALSE],
     [runtime |-> 95, genres |-> <<"">>, malformed |-> TRUE]}

DetailAnswers ==
    {[kind |-> "http", status |-> 200, data |-> d] : d \in DetailData}
    \cup {[kind |-> "http", status |-> c, data |-> NoData] : c \in {404, 429}}
    \cup {[kind |-> "neterr", status |-> 0, data |-> NoData]}

\* what the listing says of a movie: title and release_date, the date as its
\* fields between the dashes
Listing ==
    [i \in MovieIds |->
        IF i = 1 THEN [title |-> "Up", release_date |-> <<2009, 5, 29>>]
        ELSE [title |-> "Alien", release_date |-> <<>>]]

\* lines 260-267
_extract_year(date_string) ==
    IF date_string = <<>> THEN 0 ELSE date_string[1]

\* lines 122-151: the record of a movie seen for the first time
NewRecord(movie_id) ==
    [id |-> movie_id,
     title |-> Listing[movie_id].title,
     release_year |-> _extract_year(Listing[movie_id].release_date),
     streaming |-> <<>>,
     runtime_min |-> 0,
     genres |-> <<>>,
     rt_tomatometer |-> 0,
     rt_audience |-> 0,
     trailer_youtube |-> <<>>]

\* lines 154-158
StreamingEntry(provider_name, movie_id) ==
    [service |-> provider_name, region |-> "US", link |-> movie_id]

\* lines 121-151, as one thread sees it
Created(catalog, movie_id, absent) ==
    IF absent THEN (movie_id :> NewRecord(movie_id)) @@ catalog ELSE catalog

\* lines 160-161
WithEntry(record, entry) ==
    IF entry \in Range(record.streaming) THEN record
    ELSE [record EXCEPT !.streaming = Append(@, entry)]

TmdbInit ==
    /\ RateIdle
    /\ PureIdle
    /\ PoolIdle
    /\ AgentIdle
    /\ tm_pc = "start"
    /\ tm_movies = <<>>
    /\ tm_lock = Nobody
    /\ movie_ids = {}
    /\ tm_out = <<>>
    /\ p_pc = [p \in Providers |-> "idle"]
    /\ page = [p \in Providers |-> 0]
    /\ p_n = [p \in Providers |-> 0]
    /\ p_results = [p \in Providers |-> <<>>]
    /\ p_absent = [p \in Providers |-> FALSE]
    /\ e_pc = [i \in MovieIds |-> "idle"]
    /\ e_n = [i \in MovieIds |-> 0]
    /\ e_data = [i \in MovieIds |-> NoData]
    /\ p_asked = [p \in Providers |-> <<>>]
    /\ p_listed = [p \in Providers |-> {}]
    /\ p_last = [p \in Providers |-> "none"]
    /\ tm_created = [i \in MovieIds |-> 0]
    /\ e_calls = [i \in MovieIds |-> 0]
    /\ e_before = [i \in MovieIds |-> <<>>]

\* lines 274-278, 91-92: the executor has a thread for every provider; each
\* starts get_movies_by_provider with page = 1
FetchProviders ==
    /\ tm_pc = "start"
    /\ tm_pc' = "providers"
    /\ p_pc' = [p \in Providers |-> "rate"]
    /\ page' = [p \in Providers |-> 1]
    /\ UNCHANGED <<movie_ids, tm_out, tm_movies, tm_lock, p_n, p_results, p_absent>>
    /\ UNCHANGED <<enrichVars, tmdbHistoryVars>>
    /\ UNCHANGED <<rateVars, pureVars, poolVars, agentVars>>

\* lines 96-109: _rate_limit returns (SpecRate has its timing) and
\* session.get is called for the page
ProviderRateLimit(p) ==
    /\ p_pc[p] = "rate"
    /\ p_pc' = [p_pc EXCEPT ![p] = "send"]
    /\ p_n' = [p_n EXCEPT ![p] = 0]
    /\ p_asked' = [p_asked EXCEPT ![p] = Append(@, page[p])]
    /\ UNCHANGED <<tmdbMainVars, tm_movies, tm_lock, page, p_results, p_absent>>
    /\ UNCHANGED <<enrichVars, p_listed, p_last, tm_created, e_calls, e_before>>
    /\ UNCHANGED <<rateVars, pureVars, poolVars, agentVars>>

\* a provider thread, and the call for a movie id, as holders of the lock
ProviderThread(p) == <<"provider", p>>
EnrichCall(i) == <<"enrich", i>>

\* lines 109-116, 166-168: one request of the adapter for the page and, when
\* it is not sent again, what the loop does with the outcome: a
\* RequestException (raise_for_status, or the retries used up) and a page
\* without results end the loop; else the results are iterated
ProviderSend(p) ==
    /\ p_pc[p] = "send"
    /\ \E r \in ListingAnswers(page[p]) :
          /\ IF IsRetried("tmdb", r) /\ p_n[p] < total
             THEN /\ p_pc' = [p_pc EXCEPT ![p] = "backoff"]
                  /\ p_n' = [p_n EXCEPT ![p] = @ + 1]
                  /\ UNCHANGED <<p_results, p_listed, p_last>>
             ELSE IF r.kind # "http" \/ r.status # 200 \/ r.results = <<>>
             THEN /\ p_pc' = [p_pc EXCEPT ![p] = "done"]
                  /\ p_n' = [p_n EXCEPT ![p] = 0]
                  /\ p_last' = [p_last EXCEPT ![p] =
                                    IF r.kind = "http" /\ r.status = 200
                                    THEN "empty" ELSE "error"]
                  /\ UNCHANGED <<p_results, p_listed>>
             ELSE /\ p_pc' = [p_pc EXCEPT ![p] = "lock"]
                  /\ p_n' = [p_n EXCEPT ![p] = 0]
                  /\ p_last' = [p_last EXCEPT ![p] = "results"]
                  /\ p_results' = [p_results EXCEPT ![p] = r.results]
                  /\ p_listed' = [p_listed EXCEPT ![p] = @ \cup Range(r.results)]
    /\ UNCHANGED <<tmdbMainVars, tm_movies, tm_lock, page, p_absent>>
    /\ UNCHANGED <<enrichVars, p_asked, tm_created, e_calls, e_before>>
    /\ UNCHANGED <<rateVars, pureVars, poolVars, agentVars>>

\* Retry.sleep before the next try of the adapter
ProviderBackoff(p) ==
    /\ p_pc[p] = "backoff"
    /\ p_pc' = [p_pc EXCEPT ![p] = "send"]
    /\ UNCHANGED <<tmdbMainVars, tm_movies, tm_lock, page, p_n, p_results, p_absent>>
    /\ UNCHANGED <<enrichVars, tmdbHistoryVars>>
    /\ UNCHANGED <<rateVars, pureVars, poolVars, agentVars>>

ProviderAcquire_NoLock(p) ==
    /\ p_pc[p] = "lock"
    /\ tm_lock' = ProviderThread(p)
    /\ p_pc' = [p_pc EXCEPT ![p] = "locked"]
    /\ UNCHANGED <<tmdbMainVars, tm_movies, page, p_n, p_results, p_absent>>
    /\ UNCHANGED <<enrichVars, tmdbHistoryVars>>
    /\ UNCHANGED <<rateVars, pureVars, poolVars, agentVars>>

\* lines 118-120: with self.movies_lock, for the movie in turn
ProviderAcquire(p) ==
    /\ p_pc[p] = "lock"
    /\ tm_lock = Nobody
    /\ tm_lock' = ProviderThread(p)
    /\ p_pc' = [p_pc EXCEPT ![p] = "locked"]
    /\ UNCHANGED <<tmdbMainVars, tm_movies, page, p_n, p_results, p_absent>>
    /\ UNCHANGED <<enrichVars, tmdbHistoryVars>>
    /\ UNCHANGED <<rateVars, pureVars, poolVars, agentVars>>

\* line 121: movie_id not in self.movies
ProviderCheck(p) ==
    /\ p_pc[p] = "locked"
    /\ p_absent' = [p_absent EXCEPT ![p] = Head(p_results[p]) \notin DOMAIN tm_movies]
    /\ p_pc' = [p_pc EXCEPT ![p] = "checked"]
    /\ UNCHANGED <<tmdbMainVars, tm_movies, tm_lock, page, p_n, p_results>>
    /\ UNCHANGED <<enrichVars, tmdbHistoryVars>>
    /\ UNCHANGED <<rateVars, pureVars, poolVars, agentVars>>

ProviderStore_SkipsPage(p) ==
    /\ p_pc[p] = "checked"
    /\ LET movie_id == Head(p_results[p])
           catalog == Created(tm_movies, movie_id, p_absent[p])
       IN  /\ tm_movies' = [catalog EXCEPT ![movie_id] =
                                WithEntry(@, StreamingEntry(p, movie_id))]
           /\ tm_created' = [tm_created EXCEPT ![movie_id] =
                                IF p_absent[p] THEN @ + 1 ELSE @]
    /\ tm_lock' = Nobody
    /\ p_results' = [p_results EXCEPT ![p] = Tail(@)]
    /\ IF Len(p_results[p]) = 1
       THEN /\ page' = [page EXCEPT ![p] = @ + 2]
            /\ p_pc' = [p_pc EXCEPT ![p] = "rate"]
       ELSE /\ p_pc' = [p_pc EXCEPT ![p] = "lock"]
            /\ UNCHANGED page
    /\ UNCHANGED <<tmdbMainVars, p_n, p_absent>>
    /\ UNCHANGED <<enrichVars, p_asked, p_listed, p_last, e_calls, e_before>>
    /\ UNCHANGED <<rateVars, pureVars, poolVars, agentVars>>

\* lines 122-163: the record is created if the id was not there, the entry
\* of the provider is appended if the record has none like it, and the lock
\* is released; after the last movie of the page, page += 1
ProviderStore(p) ==
    /\ p_pc[p] = "checked"
    /\ LET movie_id == Head(p_results[p])
           catalog == Created(tm_movies, movie_id, p_absent[p])
       IN  /\ tm_movies' = [catalog EXCEPT ![movie_id] =
                                WithEntry(@, StreamingEntry(p, movie_id))]
           /\ tm_created' = [tm_created EXCEPT ![movie_id] =
                                IF p_absent[p] THEN @ + 1 ELSE @]
    /\ tm_lock' = Nobody
    /\ p_results' = [p_results EXCEPT ![p] = Tail(@)]
    /\ IF Len(p_results[p]) = 1
       THEN /\ page' = [page EXCEPT ![p] = @ + 1]
            /\ p_pc' = [p_pc EXCEPT ![p] = "rate"]
       ELSE /\ p_pc' = [p_pc EXCEPT ![p] = "lock"]
            /\ UNCHANGED page
    /\ UNCHANGED <<tmdbMainVars, p_n, p_absent>>
    /\ UNCHANGED <<enrichVars, p_asked, p_listed, p_last, e_calls, e_before>>
    /\ UNCHANGED <<rateVars, pureVars, poolVars, agentVars>>

\* self.max_workers of the fetcher, the threads of the enrichment pool
EnrichWorkers == 2

StartEnrich_Early ==
    /\ tm_pc = "providers"
    /\ \E p \in Providers : p_pc[p] = "done"
    /\ tm_pc' = "enrich"
    /\ movie_ids' = DOMAIN tm_movies
    /\ e_pc' = [i \in MovieIds |-> IF i \in DOMAIN tm_movies THEN "queued" ELSE "idle"]
    /\ UNCHANGED <<tm_out, tm_movies, tm_lock, providerVars, e_n, e_data>>
    /\ UNCHANGED tmdbHistoryVars
    /\ UNCHANGED <<rateVars, pureVars, poolVars, agentVars>>

\* lines 281-297: every provider future is through (as_completed, and the
\* end of the with block), movie_ids is taken and a call is queued per id
StartEnrich ==
    /\ tm_pc = "providers"
    /\ \A p \in Providers : p_pc[p] = "done"
    /\ tm_pc' = "enrich"
    /\ movie_ids' = DOMAIN tm_movies
    /\ e_pc' = [i \in MovieIds |-> IF i \in DOMAIN tm_movies THEN "queued" ELSE "idle"]
    /\ UNCHANGED <<tm_out, tm_movies, tm_lock, providerVars, e_n, e_data>>
    /\ UNCHANGED tmdbHistoryVars
    /\ UNCHANGED <<rateVars, pureVars, poolVars, agentVars>>

EnrichBusy == {i \in MovieIds : e_pc[i] \in {"rate", "send", "backoff", "lock", "locked"}}

\* a thread of the pool takes the call for an id: enrich_movie_parallel,
\* lines 256-258, 174-182
EnrichBegin(i) ==
    /\ e_pc[i] = "queued"
    /\ Cardinality(EnrichBusy) < EnrichWorkers
    /\ e_pc' = [e_pc EXCEPT ![i] = "rate"]
    /\ e_calls' = [e_calls EXCEPT ![i] = @ + 1]
    /\ e_before' = [e_before EXCEPT ![i] = tm_movies[i]]
    /\ UNCHANGED <<tmdbMainVars, tm_movies, tm_lock, providerVars, e_n, e_data>>
    /\ UNCHANGED <<p_asked, p_listed, p_last, tm_created>>
    /\ UNCHANGED <<rateVars, pureVars, poolVars, agentVars>>

\* lines 182-184: _rate_limit returns and session.get is called
EnrichRateLimit(i) ==
    /\ e_pc[i] = "rate"
    /\ e_pc' = [e_pc EXCEPT ![i] = "send"]
    /\ e_n' = [e_n EXCEPT ![i] = 0]
    /\ UNCHANGED <<tmdbMainVars, tm_movies, tm_lock, providerVars, e_data>>
    /\ UNCHANGED tmdbHistoryVars
    /\ UNCHANGED <<rateVars, pureVars, poolVars, agentVars>>

\* lines 184-187, 247-249: one request of the adapter and, when it is not
\* sent again, its outcome: a RequestException is passed over and the call
\* returns; else data is the body of the response
EnrichSend(i) ==
    /\ e_pc[i] = "send"
    /\ \E r \in DetailAnswers :
          /\ IF IsRetried("tmdb", r) /\ e_n[i] < total
             THEN /\ e_pc' = [e_pc EXCEPT ![i] = "backoff"]
                  /\ e_n' = [e_n EXCEPT ![i] = @ + 1]
                  /\ UNCHANGED e_data
             ELSE IF r.kind # "http" \/ r.status # 200
             THEN /\ e_pc' = [e_pc EXCEPT ![i] = "failed"]
                  /\ e_n' = [e_n EXCEPT ![i] = 0]
                  /\ UNCHANGED e_data
             ELSE /\ e_pc' = [e_pc EXCEPT ![i] = "lock"]
                  /\ e_n' = [e_n EXCEPT ![i] = 0]
                  /\ e_data' = [e_data EXCEPT ![i] = r.data]
    /\ UNCHANGED <<tmdbMainVars, tm_movies, tm_lock, providerVars>>
    /\ UNCHANGED tmdbHistoryVars
    /\ UNCHANGED <<rateVars, pureVars, poolVars, agentVars>>

\* Retry.sleep before the next try of the adapter
EnrichBackoff(i) ==
    /\ e_pc[i] = "backoff"
    /\ e_pc' = [e_pc EXCEPT ![i] = "send"]
    /\ UNCHANGED <<tmdbMainVars, tm_movies, tm_lock, providerVars, e_n, e_data>>
    /\ UNCHANGED tmdbHistoryVars
    /\ UNCHANGED <<rateVars, pureVars, poolVars, agentVars>>

\* line 190: with self.movies_lock
EnrichAcquire(i) ==
    /\ e_pc[i] = "lock"
    /\ tm_lock = Nobody
    /\ tm_lock' = EnrichCall(i)
    /\ e_pc' = [e_pc EXCEPT ![i] = "locked"]
    /\ UNCHANGED <<tmdbMainVars, tm_movies, providerVars, e_n, e_data>>
    /\ UNCHANGED tmdbHistoryVars
    /\ UNCHANGED <<rateVars, pureVars, poolVars, agentVars>>

\* lines 195-202: the fields written until genre['name'] is read
UpdatedBasic(record, data) == [record EXCEPT !.runtime_min = data.runtime]

\* lines 195-243: the fields written by a whole update
Updated_StreamingToo(record, data) ==
    [record EXCEPT !.runtime_min = data.runtime, !.genres = data.genres,
                   !.streaming = <<>>]

Updated(record, data) ==
    [record EXCEPT !.runtime_min = data.runtime, !.genres = data.genres]

EnrichUpdate_KeepsLock(i) ==
    /\ e_pc[i] = "locked"
    /\ tm_movies' =
          IF i \notin DOMAIN tm_movies THEN tm_movies
          ELSE [tm_movies EXCEPT ![i] =
                   IF e_data[i].malformed THEN UpdatedBasic(@, e_data[i])
                   ELSE Updated(@, e_data[i])]
    /\ tm_lock' = IF e_data[i].malformed THEN tm_lock ELSE Nobody
    /\ e_pc' = [e_pc EXCEPT ![i] = IF e_data[i].malformed THEN "raised" ELSE "done"]
    /\ UNCHANGED <<tmdbMainVars, providerVars, e_n, e_data>>
    /\ UNCHANGED tmdbHistoryVars
    /\ UNCHANGED <<rateVars, pureVars, poolVars, agentVars>>

\* lines 191-243: the record of the id is updated from data and the with
\* block is left, which releases the lock; reading a key that data lacks
\* raises in the middle of the update and leaves the block as well
EnrichUpdate(i) ==
    /\ e_pc[i] = "locked"
    /\ tm_movies' =
          IF i \notin DOMAIN tm_movies THEN tm_movies
          ELSE [tm_movies EXCEPT ![i] =
                   IF e_data[i].malformed THEN UpdatedBasic(@, e_data[i])
                   ELSE Updated(@, e_data[i])]
    /\ tm_lock' = Nobody
    /\ e_pc' = [e_pc EXCEPT ![i] = IF e_data[i].malformed THEN "raised" ELSE "done"]
    /\ UNCHANGED <<tmdbMainVars, providerVars, e_n, e_data>>
    /\ UNCHANGED tmdbHistoryVars
    /\ UNCHANGED <<rateVars, pureVars, poolVars, agentVars>>

\* the place of a title in the order of str
TitleRank(title) == IF title = "Alien" THEN 1 ELSE 2

\* line 310: the sort key (title, release_year) of a before that of b
KeyBefore(a, b) ==
    \/ TitleRank(a.title) < TitleRank(b.title)
    \/ a.title = b.title /\ a.release_year < b.release_year

\* lines 309-310: list(self.movies.values()), sorted
RECURSIVE SortedRecords(_)
SortedRecords(catalog) ==
    IF DOMAIN catalog = {} THEN <<>>
    ELSE LET first == CHOOSE i \in DOMAIN catalog :
                         \A j \in DOMAIN catalog \ {i} : KeyBefore(catalog[i], catalog[j])
         IN  <<catalog[first]>>
                \o SortedRecords([j \in DOMAIN catalog \ {first} |-> catalog[j]])

\* lines 301-316: every enrichment future is through; the records are
\* listed, sorted and returned with their number
ReturnData ==
    /\ tm_pc = "enrich"
    /\ \A i \in movie_ids : e_pc[i] \in {"done", "failed", "raised"}
    /\ tm_pc' = "done"
    /\ tm_out' = [movies |-> SortedRecords(tm_movies),
                  total_count |-> Len(SortedRecords(tm_movies))]
    /\ UNCHANGED <<movie_ids, tm_movies, tm_lock, providerVars, enrichVars>>
    /\ UNCHANGED tmdbHistoryVars
    /\ UNCHANGED <<rateVars, pureVars, poolVars, agentVars>>

TmdbNext ==
    \/ FetchProviders
    \/ \E p \in Providers :
          \/ ProviderRateLimit(p)
          \/ ProviderSend(p)
          \/ ProviderBackoff(p)
          \/ ProviderAcquire(p)
          \/ ProviderCheck(p)
          \/ ProviderStore(p)
    \/ StartEnrich
    \/ \E i \in MovieIds :
          \/ EnrichBegin(i)
          \/ EnrichRateLimit(i)
          \/ EnrichSend(i)
          \/ EnrichBackoff(i)
          \/ EnrichAcquire(i)
          \/ EnrichUpdate(i)
    \/ ReturnData

SpecTmdb == TmdbInit /\ [][TmdbNext]_vars

\* the threads of both executors are scheduled: while some thread can take
\* a step, a step is taken
FairSpecTmdb == TmdbInit /\ [][TmdbNext]_vars /\ WF_vars(TmdbNext)

(***************************************************************************)
(* The claims.                                                             *)
(***************************************************************************)
\* C1: any two permitted calls (returns of _rate_limit, by any threads) are
\* at least min_request_interval apart.
C1_PermitsSpaced ==
    \A i, j \in 1..Len(permits) :
        i < j => permits[j] - permits[i] >= min_request_interval

\* the answer is a 200 response with a document that parses
IsPage(r) == r.kind = "http" /\ r.status = 200 /\ ~r.doc.malformed

\* the answer is a response with this status
IsStatus(r, status) == r.kind = "http" /\ r.status = status

\* C2: a candidate answered with 429, 429 and then 200 with a score is
\* requested three times: session.get does not end on a 429 that is its
\* first or second answer (the adapter backs off and sends the request for
\* the same candidate again), and on the 200 that is the third answer
\* search_movie returns the scores of the page, after a back-off sleep.
C2_ThrottledTwiceThenFound ==
    \A w \in PoolThreads :
        pipeline = "rt" =>
            /\ w_pc[w] = "backoff" => w_n[w] <= total /\ w_last[w] = NoAnswer
            /\ IsStatus(w_last[w], 429) => w_n[w] > 2
            /\ w_all429[w] /\ w_n[w] = 3 /\ w_good[w] # {} =>
                   /\ w_pc[w] = "returned"
                   /\ IsPage(w_last[w])
                   /\ w_result[w] = Scores(w_last[w].doc)
                   /\ Resolved("rt", w_result[w])
                   /\ w_slept[w]

C2_Witness ==
    \E w \in PoolThreads :
        /\ pipeline = "rt"
        /\ w_pc[w] = "returned"
        /\ w_all429[w]
        /\ w_n[w] = 3
        /\ IsPage(w_last[w])
        /\ w_result[w] = [NoResult EXCEPT !.tomatometer = 90, !.audience = 80]

\* C3: while every answer of a search_movie call is 404, no candidate is
\* requested a second time and nothing sleeps; when the call returns, every
\* candidate of the list has been requested and the result is all-zero.
C3_AllNotFound ==
    \A w \in PoolThreads :
        pipeline = "rt" /\ w_all404[w] =>
            /\ w_n[w] <= 1
            /\ w_pc[w] # "backoff"
            /\ ~w_slept[w]
            /\ w_pc[w] = "returned" =>
                   /\ w_tried[w] = 1..Len(w_urls[w])
                   /\ w_ci[w] = Len(w_urls[w])
                   /\ w_result[w] = NoResult

C3_Witness ==
    \E w \in PoolThreads :
        /\ pipeline = "rt"
        /\ w_all404[w]
        /\ w_pc[w] = "returned"
        /\ Len(w_urls[w]) >= 2
        /\ w_tried[w] = 1..Len(w_urls[w])
        /\ IsStatus(w_last[w], 404)

\* C4: the candidates are requested in their order; the first one that is
\* answered with 200 and a score ends the search, which returns the scores
\* of that page, and no later candidate is requested; a 200 whose page has
\* no score ends the search only when it answers the last candidate.
C4_FirstPageWithScore ==
    \A w \in PoolThreads :
        pipeline = "rt" =>
            /\ \E k \in 0..Len(w_urls[w]) : w_tried[w] = 1..k
            /\ w_tried[w] \subseteq 1..w_ci[w]
            /\ w_good[w] # {} =>
                   /\ w_pc[w] = "returned"
                   /\ w_good[w] = {w_ci[w]}
                   /\ w_tried[w] = 1..w_ci[w]
                   /\ IsPage(w_last[w])
                   /\ w_result[w] = Scores(w_last[w].doc)
            /\ w_pc[w] = "returned" /\ Resolved("rt", w_result[w]) =>
                   w_good[w] = {w_ci[w]}
            /\ w_pc[w] = "returned" /\ IsPage(w_last[w]) /\ ~HasScore(w_last[w].doc) =>
                   /\ w_ci[w] = Len(w_urls[w])
                   /\ w_result[w] = NoResult

C4_Witness ==
    \E w \in PoolThreads :
        /\ pipeline = "rt"
        /\ w_pc[w] = "returned"
        /\ w_ci[w] = 1
        /\ Len(w_urls[w]) = 2
        /\ w_tried[w] = {1}
        /\ w_result[w] = [NoResult EXCEPT !.tomatometer = 90]


\* what search_movie returns is a mapping of two scores, what search_trailer
\* returns is the url of a video or nothing
WellFormed(result) ==
    IF pipeline = "rt"
    THEN result.tomatometer \in 0..100 /\ result.audience \in 0..100
         /\ result.trailer = <<>>
    ELSE result.tomatometer = 0 /\ result.audience = 0
         /\ result.trailer \in VideoUrls \cup {<<>>}

\* C5: whatever the answers are, no exception leaves search_movie or
\* search_trailer, which return a score mapping and a url or nothing, and
\* none leaves process_movie_batch, which returns every record of its batch.
C5_NeverRaises ==
    /\ \A w \in PoolThreads :
          /\ w_pc[w] # "raised"
          /\ WellFormed(w_result[w])
          /\ w_last[w].kind # "http" /\ w_pc[w] = "returned" => w_result[w] = NoResult
    /\ \A b \in DOMAIN future :
          /\ future[b] # "failed"
          /\ future[b] \in {"done", "collected"} => batch_results[b] = batches[b]

\* a document that does not parse was answered, and the search returned
C5_Witness ==
    \E w \in PoolThreads :
        /\ w_pc[w] = "returned"
        /\ w_last[w].kind = "http"
        /\ w_last[w].doc.malformed
        /\ w_result[w] = NoResult

\* C6: under FairSpec the run of the pool ends (update_movie_* returns, or
\* its final statistics raise on an empty list): every batch is collected,
\* every record is in the results and no thread is left in a search.
C6_RunEnds ==
    <>[](/\ main_pc \in {"done", "raised"}
         /\ Len(all_results) = Len(movies)
         /\ \A w \in PoolThreads : w_pc[w] = "idle")

C6_Witness ==
    /\ main_pc = "done"
    /\ Len(all_results) = NRecords
    /\ \A b \in DOMAIN future : future[b] = "collected"
    /\ \A w \in PoolThreads : w_pc[w] = "idle"
    /\ success_count = 0

\* C7: as long as no request of the run is answered with 200, every field
\* that was populated when the run began has the value it had then.
C7_FailingFetchKeepsFields ==
    fetch_failed =>
        \A i \in DOMAIN movies :
            /\ movies_before[i].rt_tomatometer > 0 =>
                   movies[i].rt_tomatometer = movies_before[i].rt_tomatometer
            /\ movies_before[i].rt_audience > 0 =>
                   movies[i].rt_audience = movies_before[i].rt_audience
            /\ movies_before[i].trailer_youtube # <<>> =>
                   movies[i].trailer_youtube = movies_before[i].trailer_youtube

\* the run over a catalog of enriched records is over, and every request
\* has failed
C7_Witness ==
    /\ main_pc = "done"
    /\ fetch_failed
    /\ \A i \in DOMAIN movies : movies_before[i] = Enriched
    /\ movies = movies_before
    /\ current_ua_index > 0

\* C8: a field that is non-zero (non-empty) when the run begins is never
\* zero (empty) afterwards; every record is resolved once in a run.
C8_NeverDowngraded ==
    \A i \in DOMAIN movies :
        /\ movies_before[i].rt_tomatometer > 0 => movies[i].rt_tomatometer > 0
        /\ movies_before[i].rt_audience > 0 => movies[i].rt_audience > 0
        /\ movies_before[i].trailer_youtube # <<>> => movies[i].trailer_youtube # <<>>

\* the first place of url in urls, or 0
IndexOf(urls, url) ==
    IF \E i \in 1..Len(urls) : urls[i] = url
    THEN CHOOSE i \in 1..Len(urls) : urls[i] = url /\ \A j \in 1..(i-1) : urls[j] # url
    ELSE 0

\* the words of the cleaned, lowered title, and their slug
TitleWords(title) == Split(Lower(clean_title(title)))

RECURSIVE JoinUnderscore(_)
JoinUnderscore(words) ==
    IF words = <<>> THEN <<>>
    ELSE IF Len(words) = 1 THEN words[1]
    ELSE words[1] \o <<"_">> \o JoinUnderscore(Tail(words))

PlainSlug(title) == JoinUnderscore(TitleWords(title))

LeadingArticles == {<<"t","h","e","_">>, <<"a","_">>, <<"a","n","_">>}

\* the plain slug starts with the_, a_ or an_
ArticleLed(title) == \E art \in LeadingArticles : HasAt(PlainSlug(title), 1, art)

StrippedSlug(title) ==
    LET art == CHOOSE a \in LeadingArticles : HasAt(PlainSlug(title), 1, a)
    IN  SubSeq(PlainSlug(title), Len(art) + 1, Len(PlainSlug(title)))

\* C9 as stated: the first candidate is the plain canonical slug of the
\* title, leading article kept.
C9_FirstIsPlainSlug ==
    g_pc = "generated" => g_unique[1] = RtUrl(PlainSlug(g_title))

\* C9 amended: the first candidate is the first special-case slug when the
\* title has one, and otherwise the canonical slug without its leading
\* article; it is the plain slug when the title has neither.
C9_FirstCandidate ==
    g_pc = "generated" =>
        /\ g_unique # <<>>
        /\ special_cases(g_title) # <<>> =>
               g_unique[1] = RtUrl(special_cases(g_title)[1])
        /\ special_cases(g_title) = <<>> /\ ArticleLed(g_title) =>
               g_unique[1] = RtUrl(StrippedSlug(g_title))
        /\ special_cases(g_title) = <<>> /\ ~ArticleLed(g_title) =>
               g_unique[1] = RtUrl(PlainSlug(g_title))

C9_Witness ==
    /\ g_pc = "generated"
    /\ g_title = TheMatrix
    /\ g_unique[1] = RtUrl(<<"m","a","t","r","i","x">>)

\* C10 as stated: for a title that starts with an article both the
\* article-present and the article-stripped slug are candidates, and the
\* article-present one comes no later than the stripped one.
C10_ArticleFormNoLater ==
    g_pc = "generated" /\ ArticleLed(g_title) =>
        /\ IndexOf(g_unique, RtUrl(PlainSlug(g_title))) > 0
        /\ IndexOf(g_unique, RtUrl(StrippedSlug(g_title))) > 0
        /\ IndexOf(g_unique, RtUrl(PlainSlug(g_title)))
               <= IndexOf(g_unique, RtUrl(StrippedSlug(g_title)))

\* C10 amended: both slugs are candidates, and the article-stripped one
\* comes before the article-present one, unless the article-present slug is
\* also a special-case slug; for "The Matrix" they are first and third.
C10_StrippedFormFirst ==
    g_pc = "generated" /\ ArticleLed(g_title) =>
        /\ IndexOf(g_unique, RtUrl(PlainSlug(g_title))) > 0
        /\ IndexOf(g_unique, RtUrl(StrippedSlug(g_title))) > 0
        /\ (\A i \in 1..Len(special_cases(g_title)) :
                  special_cases(g_title)[i] # PlainSlug(g_title))
              => IndexOf(g_unique, RtUrl(StrippedSlug(g_title)))
                     < IndexOf(g_unique, RtUrl(PlainSlug(g_title)))
        /\ g_title = TheMatrix =>
              /\ IndexOf(g_unique, RtUrl(<<"m","a","t","r","i","x">>)) = 1
              /\ IndexOf(g_unique, RtUrl(<<"t","h","e","_","m","a","t","r","i","x">>)) = 3

C10_Witness ==
    /\ g_pc = "generated"
    /\ g_title = TheMatrix
    /\ g_year = 1999
    /\ IndexOf(g_unique, RtUrl(<<"t","h","e","_","m","a","t","r","i","x">>)) = 3

\* C11: the list that is fetched is not empty and holds no url twice; it
\* holds the urls of the raw list, in the order of their first occurrences.
C11_DedupeKeepsOrder ==
    g_pc = "generated" =>
        /\ g_unique # <<>>
        /\ \A i, j \in 1..Len(g_unique) : i # j => g_unique[i] # g_unique[j]
        /\ Range(g_unique) = Range(g_possible)
        /\ \A i, j \in 1..Len(g_unique) :
               i < j => IndexOf(g_possible, g_unique[i]) < IndexOf(g_possible, g_unique[j])

\* the raw list holds a url twice, with another url in between
C11_Witness ==
    /\ g_pc = "generated"
    /\ Len(g_unique) < Len(g_possible)
    /\ \E i, j, k \in 1..Len(g_possible) :
           /\ i < j /\ j < k
           /\ g_possible[i] = g_possible[k]
           /\ g_possible[j] # g_possible[i]
           /\ IndexOf(g_possible, g_possible[j]) = j

\* the records in the hands of a thread that is in a search or writes its
\* result
InSearch(w) ==
    w_pc[w] \in {"cand", "send", "backoff", "returned", "raised", "lock", "locked", "loaded"}

\* a record whose year is 0 (ratings) or whose release date is missing
\* (trailers)
UnknownYear(rec) ==
    IF pipeline = "rt" THEN rec.release_year = 0 ELSE rec.release_date = <<>>

\* C12: no thread is ever in a search (at the rate limiter, in a request, in
\* a back-off, at the result) for a record with an empty title or an unknown
\* year; such a record keeps its fields, and it is in the results of its
\* batch and of the run.
C12_UnknownIsSkipped ==
    \A i \in DOMAIN movies :
        (movies_before[i].title = <<>> \/ UnknownYear(movies_before[i])) =>
            /\ movies[i] = movies_before[i]
            /\ \A w \in PoolThreads : InSearch(w) => Movie(w) # i
            /\ \A b \in DOMAIN future :
                   future[b] \in {"done", "collected"} /\ i \in Range(batches[b])
                       => i \in Range(batch_results[b])
            /\ main_pc = "done" => i \in Range(all_results)

\* the run over a catalog of a record without a release date and a record
\* without a title is over, and no request was prepared
C12_Witness ==
    /\ main_pc = "done"
    /\ \E i, j \in DOMAIN movies :
           /\ movies[i].title = <<>>
           /\ movies[j].title # <<>> /\ movies[j].release_year = 0
           /\ {i, j} \subseteq Range(all_results)
    /\ current_ua_index = 0

\* C13: at the same place and with the same duration, the video title that
\* holds the movie title and "official trailer" has a strictly higher score
\* than the title that holds neither, whatever the movie title is.
C13_OfficialTrailerPreferred ==
    k_pc = "scored" => k_scores[1] > k_scores[2]

\* the score, as the loop of search_trailer computes it, of the i-th video
\* of the page on which the search of thread w ended
ScoreAt(w, i) == w_scored[w][i]

\* the search of thread w ended on a page that was read
Ranked(w) ==
    /\ pipeline = "trailer"
    /\ w_pc[w] = "returned"
    /\ IsPage(w_last[w])
    /\ ~w_last[w].doc.malformed

\* the videos of the page of thread w, and those of them with a score above 5
PageLinks(w) == VideoLinks(w_last[w].doc)
AboveThreshold(w) == {i \in 1..Len(PageLinks(w)) : ScoreAt(w, i) > 5}

\* the result of thread w is none if no video of its page has a score above
\* 5, and else a video with a score above 5 that no video of the page exceeds
BestAboveThreshold(w) ==
    IF AboveThreshold(w) = {}
    THEN w_result[w].trailer = <<>>
    ELSE \E i \in AboveThreshold(w) :
            /\ w_result[w].trailer = PageLinks(w)[i].url
            /\ \A j \in 1..Len(PageLinks(w)) : ScoreAt(w, j) <= ScoreAt(w, i)

\* C14: with the scores as they are when the search returns, what the ranker
\* returns is a video of the page with a score above 5 that no video of the
\* page exceeds; when the page has no video or none with a score above 5 it
\* returns none, and the step that follows a search that returned none
\* leaves the trailer field of the record as it is.
C14_AboveThresholdOnly ==
    /\ [](\A w \in PoolThreads : Ranked(w) => BestAboveThreshold(w))
    /\ [][\A w \in PoolThreads :
              /\ pipeline = "trailer"
              /\ w_pc[w] = "returned"
              /\ w_result[w].trailer = <<>>
              /\ w_pc'[w] # "returned"
              => movies'[Movie(w)].trailer_youtube = movies[Movie(w)].trailer_youtube]_vars

\* a search ended on the page whose only video has the score 5, and one on
\* the page whose second video has the highest score
C14_Witness ==
    \E w \in PoolThreads :
        /\ Ranked(w)
        /\ \/ /\ Len(VideoLinks(w_last[w].doc)) = 1
              /\ ScoreAt(w, 1) = 5
              /\ w_result[w].trailer = <<>>
           \/ /\ Len(VideoLinks(w_last[w].doc)) = 2
              /\ ScoreAt(w, 1) > 5
              /\ ScoreAt(w, 2) > ScoreAt(w, 1)
              /\ w_result[w].trailer = YtUrl("v1")

\* the page holds no markup that a strategy after the first one reads
OnlyRtText(doc) ==
    /\ ~doc.malformed
    /\ ~doc.score_board
    /\ doc.percents = <<>>
    /\ doc.qa_tomato = -1 /\ doc.qa_audience = -1

\* C15: on a page with nothing but the rt-text critics and audience scores
\* the extraction ends without an exception and yields exactly these two
\* numbers (0 for one that is absent); on a page without any markup it ends
\* without an exception and yields 0 and 0.
C15_RtTextOnly ==
    /\ x_pc = "raised" => x_doc.malformed
    /\ x_pc = "extracted" /\ OnlyRtText(x_doc) =>
           x_after[4] = [tomatometer |-> Found(x_doc.rt_critics),
                         audience |-> Found(x_doc.rt_audience)]
    /\ x_pc = "extracted" /\ x_doc = NoMarkup =>
           x_after[4] = [tomatometer |-> 0, audience |-> 0]

C15_Witness ==
    /\ x_pc = "extracted"
    /\ OnlyRtText(x_doc)
    /\ x_doc.rt_critics = 90 /\ x_doc.rt_audience = 80
    /\ x_after[4] = [tomatometer |-> 90, audience |-> 80]

ScoreFields == {"tomatometer", "audience"}

\* what each strategy reads for the two fields on the page, taken alone
Finds(doc) ==
    LET zero == [tomatometer |-> 0, audience |-> 0]
    IN  <<Strategy1(doc), Strategy2(doc, zero), Strategy3(doc, zero), Strategy4(doc, zero)>>

\* C16: for each of the two fields by itself, the value is that of the first
\* strategy, in their order, that reads a non-zero number for the field: a
\* non-zero value is kept by every later strategy, and a field that is 0
\* after a strategy gets what the next strategy reads for it, whether or not
\* the other field is already found.
C16_FieldsIndependent ==
    x_pc = "extracted" =>
        \A f \in ScoreFields :
            /\ x_after[1][f] = Finds(x_doc)[1][f]
            /\ \A k \in 1..3 :
                   IF x_after[k][f] # 0
                   THEN x_after[k + 1][f] = x_after[k][f]
                   ELSE x_after[k + 1][f] = Finds(x_doc)[k + 1][f]

\* the critics score comes from the rt-text element and the audience score
\* from the score-board element, whose critics score is not taken
C16_Witness ==
    /\ x_pc = "extracted"
    /\ x_after[1] = [tomatometer |-> 90, audience |-> 0]
    /\ x_doc.score_board /\ x_doc.sb_critics = 60 /\ x_doc.sb_popcorn = 70
    /\ x_doc.qa_audience = 20
    /\ x_after[4] = [tomatometer |-> 90, audience |-> 70]

RECURSIVE Concat(_)
Concat(seqs) == IF seqs = <<>> THEN <<>> ELSE seqs[1] \o Concat(Tail(seqs))

\* C17: the batches, one after the other, are the input list; no record is
\* twice in the results collected so far, every record of the results is one
\* of a collected batch, and when update_movie_ratings / update_movie_trailers
\* returns, every record of the input is in the returned list exactly once.
C17_ResultsArePermutation ==
    /\ main_pc # "start" =>
           /\ Concat(batches) = [i \in 1..Len(movies) |-> i]
           /\ \A b \in DOMAIN batches : batches[b] # <<>>
    /\ \A i, j \in 1..Len(all_results) : i # j => all_results[i] # all_results[j]
    /\ Range(all_results) =
           UNION {Range(batches[b]) : b \in {c \in DOMAIN future : future[c] = "collected"}}
    /\ main_pc = "done" =>
           /\ Len(all_results) = Len(movies)
           /\ Range(all_results) = DOMAIN movies

\* five records and two threads make three batches, the last of one record;
\* they were collected in another order than they were submitted in
C17_Witness ==
    /\ main_pc = "done"
    /\ max_workers = 2
    /\ batches = <<<<1, 2>>, <<3, 4>>, <<5>>>>
    /\ all_results = <<5, 1, 2, 3, 4>>

\* the threads that run process_movie_batch
Busy == {w \in PoolThreads : w_pc[w] # "idle"}

\* C18: no more than max_workers threads are in a batch at any time, each of
\* them at one record: the records of its batch before that one are all in
\* its results, and it moves to the next record, by one, only by the step
\* that appends the record it is at.
C18_BoundedAndInTurn ==
    /\ [](/\ Cardinality(Busy) <= max_workers
          /\ \A w \in Busy :
                 /\ future[w_batch[w]] = "running"
                 /\ w_results[w] = SubSeq(batches[w_batch[w]], 1, w_pos[w] - 1)
                 /\ InSearch(w) => w_pos[w] \in DOMAIN batches[w_batch[w]])
    /\ [][\A w \in Busy :
              w_pos'[w] # w_pos[w] /\ w_batch'[w] = w_batch[w]
              => /\ w_pos'[w] = w_pos[w] + 1
                 /\ w_pc'[w] = "loop"
                 /\ w_results'[w] = Append(w_results[w], Movie(w))]_vars

\* three batches for two threads: both threads are in a search while the
\* third batch is queued
C18_Witness ==
    /\ max_workers = 2
    /\ Len(batches) = 3
    /\ future[3] = "queued"
    /\ Cardinality(Busy) = 2
    /\ \E w \in Busy : InSearch(w)

\* the records into which a signal was written (no page carries the values
\* that a record of the catalogs already has)
Written == {i \in DOMAIN movies : movies[i] # movies_before[i]}

\* the threads between the write into their record and the end of their
\* success_count += 1
Counting == {w \in PoolThreads : w_pc[w] \in {"lock", "locked", "loaded"}}

\* C19: at most one thread is inside `with self.movies_lock`, and it holds
\* the lock; success_count is the number of written records less those whose
\* thread has not finished its increment yet, hence, when the pool has
\* finished, the number of records with a signal found and written.
C19_NoLostIncrement ==
    /\ \A v, w \in PoolThreads :
           w_pc[v] \in {"locked", "loaded"} /\ w_pc[w] \in {"locked", "loaded"} => v = w
    /\ \A w \in PoolThreads : w_pc[w] \in {"locked", "loaded"} => movies_lock = w
    /\ \A w \in PoolThreads : w_pc[w] = "loaded" => w_count[w] = success_count
    /\ success_count + Cardinality(Counting) = Cardinality(Written)
    /\ main_pc = "done" => success_count = Cardinality(Written)

\* two threads have each written one record and counted it
C19_Witness ==
    /\ main_pc = "done"
    /\ max_workers = 2
    /\ Len(batches) = 2
    /\ Cardinality(Written) = 2
    /\ success_count = 2

\* the record of thread w lacks the sub-structure that its pipeline writes to
LacksSubStructure(w) ==
    IF pipeline = "rt" THEN ~movies[Movie(w)].has_ratings
    ELSE ~movies[Movie(w)].has_media

\* C20: when a search has found a signal for a record that lacks the ratings
\* (media) sub-structure, the step that uses the result creates the
\* sub-structure and stores the signal in the record.
C20_SubStructureCreated ==
    [][\A w \in PoolThreads :
          /\ w_pc[w] = "returned"
          /\ Resolved(pipeline, w_result[w])
          /\ LacksSubStructure(w)
          /\ w_pc'[w] # "returned"
          => IF pipeline = "rt"
             THEN /\ movies'[Movie(w)].has_ratings
                  /\ movies'[Movie(w)].rt_tomatometer = w_result[w].tomatometer
                  /\ movies'[Movie(w)].rt_audience = w_result[w].audience
             ELSE /\ movies'[Movie(w)].has_media
                  /\ movies'[Movie(w)].trailer_youtube = w_result[w].trailer]_vars

\* C21: the check / sleep / stamp sequence of _rate_limit is exclusive: while
\* one thread is between its reading of the clock and its stamp of
\* last_request_time, no other thread is inside _rate_limit.
C21_RateBudgetExclusive ==
    \A s, t \in Threads :
        rl_pc[s] # "idle" /\ rl_pc[t] # "idle" => s = t

\* C22: a thread that is about to send a request has called _rate_limit
\* since its previous request: it has sent nothing since that call.
C22_AcquiredBeforeEachRequest ==
    \A w \in PoolThreads : w_pc[w] = "send" => w_n[w] = 0

\* the durations that a search on a fetcher that has stored none yet has at
\* hand when it scores the videos of the page
OwnDurations(doc) == StoreDurations([u \in VideoUrls |-> <<>>], doc)

\* C23: what a trailer search returns on a page is what it returns on that
\* page for that title on a fetcher that has resolved no other record: it
\* does not depend on the durations that other searches have stored.
C23_ResultIsOwn ==
    \A w \in PoolThreads :
        Ranked(w) =>
            w_result[w].trailer =
                BestTrailer(movies[Movie(w)].title, OwnDurations(w_last[w].doc), w_last[w].doc)

\* C24 as stated: once a strategy has left a non-zero value in at least one
\* field, no later strategy changes anything.
C24_StopsAtFirstYield ==
    x_pc = "extracted" =>
        \A k \in 1..3 :
            (x_after[k].tomatometer # 0 \/ x_after[k].audience # 0)
                => x_after[k + 1] = x_after[k]

\* C24, amended: the later strategies change nothing once both fields are
\* non-zero; while one field is 0 the next strategy is applied to that field,
\* although the other field is found, and leaves the found one as it is.
C24_StopsWhenBothFound ==
    x_pc = "extracted" =>
        \A k \in 1..3 :
            /\ (x_after[k].tomatometer # 0 /\ x_after[k].audience # 0)
                   => x_after[k + 1] = x_after[k]
            /\ (x_after[k].tomatometer # 0 /\ x_after[k].audience = 0)
                   => x_after[k + 1] = [tomatometer |-> x_after[k].tomatometer,
                                        audience |-> Finds(x_doc)[k + 1].audience]
            /\ (x_after[k].tomatometer = 0 /\ x_after[k].audience # 0)
                   => x_after[k + 1] = [tomatometer |-> Finds(x_doc)[k + 1].tomatometer,
                                        audience |-> x_after[k].audience]

\* the first strategy yields the critics score alone, and the last strategy
\* is applied to the page for the audience score
C24_Witness ==
    /\ x_pc = "extracted"
    /\ x_after[1] = [tomatometer |-> 90, audience |-> 0]
    /\ x_after[3] = [tomatometer |-> 90, audience |-> 0]
    /\ x_doc.qa_tomato = 30
    /\ x_after[4] = [tomatometer |-> 90, audience |-> 20]

C26_ErrorAbsorbedAtCandidate ==
    \A w \in PoolThreads :
        w_error[w] # 0 =>
            /\ w_pc[w] \in {"cand", "send", "backoff", "returned"}
            /\ pipeline = "trailer" => w_pc[w] = "returned" /\ w_result[w] = NoResult
            /\ pipeline = "rt" =>
                   /\ w_slept[w]
                   /\ IF w_error[w] < Len(w_urls[w])
                      THEN /\ w_ci[w] > w_error[w]
                           /\ \/ w_ci[w] = w_error[w] + 1 /\ w_pc[w] \in {"cand", "send"}
                              \/ w_error[w] + 1 \in w_tried[w]
                      ELSE w_pc[w] = "returned" /\ w_result[w] = NoResult
                   /\ w_good[w] # {} =>
                          /\ w_pc[w] = "returned"
                          /\ w_error[w] < w_ci[w]
                          /\ w_result[w] = Scores(w_last[w].doc)
                          /\ Resolved("rt", w_result[w])

\* the first candidate ended in a network error, the second one was
\* answered with a page that has a score
C26_Witness ==
    \E w \in PoolThreads :
        /\ pipeline = "rt"
        /\ w_pc[w] = "returned"
        /\ w_error[w] = 1
        /\ w_good[w] = {2}
        /\ w_result[w] = [NoResult EXCEPT !.tomatometer = 90, !.audience = 80]

\* C27: the index of the rotation is an index of the pool of user agents,
\* and each call takes the entry after the one the call before it took,
\* cyclically, whichever threads make the calls.
C27_RotatesCyclically ==
    /\ ua_index \in 0..(UserAgents(ua_fetcher) - 1)
    /\ \A k \in 1..Len(ua_calls) : ua_calls[k] \in 0..(UserAgents(ua_fetcher) - 1)
    /\ \A k \in 1..(Len(ua_calls) - 1) :
           ua_calls[k + 1] = (ua_calls[k] + 1) % UserAgents(ua_fetcher)

\* C28: when a search of search_trailer returns a video, it is the first
\* video, in the order of the page, among those with the highest score: no
\* video before it has a score as high.
C28_TieGoesToFirst ==
    \A w \in PoolThreads :
        Ranked(w) =>
            \A i \in 1..Len(PageLinks(w)) :
                /\ ScoreAt(w, i) > 5
                /\ \A j \in 1..Len(PageLinks(w)) : ScoreAt(w, j) <= ScoreAt(w, i)
                /\ \A j \in 1..(i - 1) : ScoreAt(w, j) < ScoreAt(w, i)
                => w_result[w].trailer = PageLinks(w)[i].url

\* the two videos of the page have the same score, above 5
C28_Witness ==
    \E w \in PoolThreads :
        /\ Ranked(w)
        /\ Len(PageLinks(w)) = 2
        /\ PageLinks(w)[1].url # PageLinks(w)[2].url
        /\ ScoreAt(w, 1) = ScoreAt(w, 2)
        /\ ScoreAt(w, 1) > 5
        /\ w_result[w].trailer = PageLinks(w)[1].url

\* the title holds '#' or '@'
Denylisted(title) == \E i \in 1..Len(title) : title[i] = "#" \/ title[i] = "@"

\* C29: search_movie called for a title with '#' or '@' has returned the
\* all-zero result at once: it has no candidate list, it is never at the
\* rate limiter, in a request or in a back-off, no request was sent and
\* nothing slept; a run over a catalog of such titles only never rotates
\* the user agent and gets no answer.
C29_DeniedTitleRejected ==
    pipeline = "rt" =>
        /\ \A w \in PoolThreads :
               InSearch(w) /\ Denylisted(movies[Movie(w)].title) =>
                   /\ w_pc[w] = "returned"
                   /\ w_result[w] = NoResult
                   /\ w_urls[w] = <<>>
                   /\ w_tried[w] = {}
                   /\ w_n[w] = 0
                   /\ w_last[w] = NoAnswer
                   /\ ~w_slept[w]
        /\ (\A i \in DOMAIN movies : Denylisted(movies[i].title)) =>
               current_ua_index = 0 /\ fetch_failed

\* search_movie has returned for the title "#1"
C29_Witness ==
    \E w \in PoolThreads :
        /\ pipeline = "rt"
        /\ w_pc[w] = "returned"
        /\ movies[Movie(w)].title = <<"#","1">>
        /\ movies[Movie(w)].release_year = 2009
        /\ w_result[w] = NoResult

\* the candidates of the search of thread w are requested in their order:
\* those requested so far are the first ones of the list, the candidate in
\* turn is the next one until its request is sent, and no candidate is taken
\* up again once the loop has left it
InListOrder(w) ==
    /\ \E k \in 0..Len(w_urls[w]) : w_tried[w] = 1..k
    /\ w_pc[w] = "cand" => w_tried[w] = 1..(w_ci[w] - 1)
    /\ w_pc[w] = "send" /\ w_n[w] = 0 => w_tried[w] = 1..(w_ci[w] - 1)
    /\ w_pc[w] \in {"send", "backoff"} /\ w_n[w] > 0 => w_tried[w] = 1..w_ci[w]
    /\ w_pc[w] = "returned" /\ w_urls[w] # <<>> => w_tried[w] = 1..w_ci[w]

\* C30 as stated: the candidates are requested in their order and no
\* candidate is sent a second request.
C30_OneRequestPerCandidate ==
    \A w \in PoolThreads :
        pipeline = "rt" => InListOrder(w) /\ w_n[w] <= 1

\* C30: search_movie takes the candidates in their order and calls
\* session.get once for each candidate it reaches; in that call at most
\* total + 1 requests are sent for the candidate, one more after each answer
\* that the adapter retries.
C30_InOrderOneGetEach ==
    \A w \in PoolThreads :
        pipeline = "rt" => InListOrder(w) /\ w_n[w] <= total + 1

\* the second candidate of a search is being sent its third request
C30_Witness ==
    \E w \in PoolThreads :
        /\ pipeline = "rt"
        /\ w_pc[w] = "send"
        /\ w_ci[w] = 2
        /\ w_n[w] = 2
        /\ w_tried[w] = {1, 2}

\* C31: update_movie_ratings / update_movie_trailers called with an empty
\* list does not raise: once it is past its collecting loop it has returned,
\* and what it returned is the empty list.
C31_EmptyListReturnsEmpty ==
    movies = <<>> =>
        /\ main_pc # "raised"
        /\ main_pc \notin {"start", "collect"} => main_pc = "done" /\ all_results = <<>>

\* the lock of the worker pool is held only around the count (lines 79-80)
PoolLockOnlyAroundCount ==
    \A w \in PoolThreads : movies_lock = w => w_pc[w] \in {"locked", "loaded"}

\* the holder of self.movies_lock is inside one of the two with blocks
LockHolderInsideWith ==
    /\ \A p \in Providers :
          tm_lock = ProviderThread(p) <=> p_pc[p] \in {"locked", "checked"}
    /\ \A i \in MovieIds :
          tm_lock = EnrichCall(i) <=> e_pc[i] = "locked"

\* C32: movies_lock is never held by a thread that is in _rate_limit, in a
\* request or in a backoff of the adapter, or that has left its with block,
\* by return or by an exception; every thread waiting for the lock gets it,
\* and fetch_all_data comes to its end with the lock free
C32_LockNeverHeldWhileWaiting ==
    /\ []LockHolderInsideWith
    /\ \A p \in Providers : (p_pc[p] = "lock") ~> (p_pc[p] = "locked")
    /\ \A i \in MovieIds : (e_pc[i] = "lock") ~> (e_pc[i] = "locked")
    /\ <>[](tm_pc = "done" /\ tm_lock = Nobody)

\* a call holds the lock after another call has left the with block by an
\* exception
C32_Witness ==
    \E i, j \in MovieIds :
        /\ e_pc[i] = "raised"
        /\ e_pc[j] = "locked"
        /\ tm_lock = EnrichCall(j)

\* the providers with an entry in the streaming list of a record
Services(record) == {record.streaming[k].service : k \in DOMAIN record.streaming}

\* C33: however the provider threads interleave, self.movies has one record
\* per id found, under its id and created once; the streaming list of a
\* record has no provider twice, has only providers whose pages listed the
\* movie, and has every provider that has gone through such a listing
C33_OneRecordPerIdOneEntryPerProvider ==
    /\ \A i \in MovieIds :
          /\ tm_created[i] <= 1
          /\ i \in DOMAIN tm_movies <=> tm_created[i] = 1
    /\ \A i \in DOMAIN tm_movies :
          LET record == tm_movies[i]
          IN  /\ record.id = i
              /\ Cardinality(Services(record)) = Len(record.streaming)
              /\ \A k \in DOMAIN record.streaming :
                    record.streaming[k] = StreamingEntry(record.streaming[k].service, i)
              /\ \A p \in Services(record) : i \in p_listed[p]
    /\ \A p \in Providers : \A i \in p_listed[p] :
          i \notin Range(p_results[p]) =>
              i \in DOMAIN tm_movies /\ p \in Services(tm_movies[i])

\* both providers are through, each had movie 2 on a page, and its record,
\* created once, has the two of them
C33_Witness ==
    /\ \A p \in Providers : p_pc[p] = "done" /\ 2 \in p_listed[p]
    /\ Len(tm_movies[2].streaming) = 2
    /\ tm_created[2] = 1

\* the ids of the records fetch_all_data returned
OutputIds == {tm_out.movies[k].id : k \in DOMAIN tm_out.movies}

\* C34: no enrich_movie_details call begins before every provider thread is
\* through; from then on self.movies keeps the ids it had, which are the ids
\* the provider threads found, and each of them gets one call and no other
\* id any; the records returned have just these ids, one record each, and
\* total_count is their number
C34_EnrichAfterProvidersSameIds ==
    /\ (\E i \in MovieIds : e_pc[i] # "idle" \/ e_calls[i] > 0) =>
            \A p \in Providers : p_pc[p] = "done"
    /\ \A i \in MovieIds : e_calls[i] <= (IF i \in movie_ids THEN 1 ELSE 0)
    /\ tm_pc \in {"enrich", "done"} =>
            /\ movie_ids = UNION {p_listed[p] : p \in Providers}
            /\ DOMAIN tm_movies = movie_ids
    /\ tm_pc = "done" =>
            /\ \A i \in movie_ids : e_calls[i] = 1
            /\ OutputIds = movie_ids
            /\ Len(tm_out.movies) = Cardinality(movie_ids)
            /\ tm_out.total_count = Cardinality(movie_ids)

\* fetch_all_data returned two records; the request for one of them had
\* failed and the update of the other had raised
C34_Witness ==
    /\ tm_pc = "done"
    /\ tm_out.total_count = 2
    /\ \E i, j \in movie_ids : e_pc[i] = "failed" /\ e_pc[j] = "raised"

\* the session.get calls of a provider thread ask for the pages 1, 2, 3, ...
\* in turn, and the thread is through just when one of them came back with
\* an empty page or raised
PagesInTurn ==
    \A p \in Providers :
        /\ \A k \in DOMAIN p_asked[p] : p_asked[p][k] = k
        /\ page[p] = Len(p_asked[p]) + (IF p_pc[p] = "rate" THEN 1 ELSE 0)
        /\ p_pc[p] = "done" <=> p_last[p] \in {"empty", "error"}
        /\ p_pc[p] \in {"lock", "locked", "checked"} => p_last[p] = "results"

\* a thread that is through asks for no further page
NoPageAfterStop ==
    [][\A p \in Providers :
          p_pc[p] = "done" => p_pc'[p] = "done" /\ p_asked'[p] = p_asked[p]]_vars

\* C35 as stated: the pages are requested in increasing order without gaps,
\* no page is requested again, the first empty page and the first request
\* that ends in an error stop the thread for good, and the thread stops
C35_EachPageRequestedOnce ==
    /\ [](PagesInTurn /\ \A p \in Providers : p_n[p] = 0)
    /\ NoPageAfterStop
    /\ <>[](\A p \in Providers : p_pc[p] = "done")

\* C35: get_movies_by_provider calls session.get for the pages 1, 2, 3, ...
\* in increasing order without gaps, once per page, within which the page is
\* requested again after each answer the adapter retries, at most total
\* times; it stops at the first call that returns an empty page or raises,
\* asks for no page after that, and it does stop when the listing ends
C35_PagesInOrderOneGetEach ==
    /\ [](PagesInTurn /\ \A p \in Providers : p_n[p] <= total)
    /\ NoPageAfterStop
    /\ <>[](\A p \in Providers : p_pc[p] = "done")

\* a thread went through two pages with results and stopped at an error
\* on the third, while the other sends its request for page 2 once more
\* after total answers that the adapter retried
C35_Witness ==
    \E p, q \in Providers :
        /\ p_pc[p] = "done" /\ p_asked[p] = <<1, 2, 3>> /\ p_last[p] = "error"
        /\ p_pc[q] = "send" /\ p_asked[q] = <<1, 2>> /\ p_n[q] = total

\* the fields of a record that enrichment is to keep
Kept(record) ==
    <<record.id, record.title, record.release_year, record.streaming,
      record.rt_tomatometer, record.rt_audience, record.trailer_youtube>>

\* C36: once the enrich_movie_details calls are under way no step changes
\* the ids of self.movies or the id, title, release year, streaming list,
\* rt_tomatometer, rt_audience or trailer_youtube of a record; the step in
\* which the request of a call fails changes nothing in self.movies, and
\* the record of such a call is as it was when the call began
C36_EnrichKeepsIdentityAndScraped ==
    /\ [][tm_pc = "enrich" =>
             /\ DOMAIN tm_movies' = DOMAIN tm_movies
             /\ \A i \in DOMAIN tm_movies : Kept(tm_movies'[i]) = Kept(tm_movies[i])]_vars
    /\ [][\A i \in MovieIds :
             e_pc[i] # "failed" /\ e_pc'[i] = "failed" => tm_movies' = tm_movies]_vars
    /\ [](\A i \in MovieIds : e_pc[i] = "failed" => tm_movies[i] = e_before[i])

\* the request of one call failed, and another call updated its record,
\* which has its streaming list
C36_Witness ==
    \E i, j \in MovieIds :
        /\ e_pc[i] = "failed"
        /\ e_pc[j] = "done"
        /\ tm_movies[j].genres # <<>>
        /\ tm_movies[j].streaming # <<>>
====
